---- MODULE Spec2Model ----
(***************************************************************************)
(* Telemetry pipeline: edge node (cmd/edge/main.go, which holds two builds  *)
(* of the edge: the tiered-alert build, lines 1-351, and the static-        *)
(* threshold build with the noise filter, lines 354-646), cloud processor   *)
(* (cmd/cloud/main.go), dashboard and sensor (cmd/sensor/main.go).          *)
(*                                                                          *)
(* Numbers: readings are integers and float64 arithmetic is exact rational  *)
(* arithmetic (means are kept as num/den pairs, the noise-filter comparison *)
(* is made on squares); +Inf/-Inf/NaN are modelled explicitly where the     *)
(* code can produce them.  Where rounding matters (the mean of an           *)
(* aggregate) the totals are computed in a binary floating-point format of  *)
(* MantissaBits significand bits, rounded to nearest even as float64 is.    *)
(***************************************************************************)
EXTENDS Integers, Sequences, FiniteSets, TLC

(* ------------------------------ bounds --------------------------------- *)
\* largest -window flag tried (window sizes 1..MaxWindow)
MaxWindow == 2
\* noise thresholds tried: k = n/2 for n in 1..MaxNoiseNum (the -noise flag)
MaxNoiseNum == 2
\* messages delivered to the edge on sensors.readings
MaxIngest == 3
\* largest -max-readings flag tried by the cloud (capacities 1..MaxCap)
MaxCap == 3
\* messages delivered to the cloud on edge.filtered
MaxCloudMsgs == 5
\* the cloud's clock runs from 0 to MaxClock seconds
MaxClock == 2
\* largest -max-alerts flag tried by the dashboard (capacities 1..MaxDashAlerts)
MaxDashAlerts == 2
\* messages, report runs, getStats calls and clock ticks in one run of the
\* report model
MaxActivity == 4
\* messages and clock ticks in one run of the long-running model
MaxWarmMsgs == 4
\* longest latency buffer handed to calculatePercentile on its own
MaxPctLen == 4
\* messages delivered to the edge and to the cloud together in the intake model
MaxIntake == 4
\* readings classified on their own run from -MaxBelowZero to MaxClassifyValue
MaxBelowZero == 10
MaxClassifyValue == 210
\* significand bits of the reduced floating-point format (float64 has 53)
MantissaBits == 4

(* --------------------------- program constants ------------------------- *)
thresholdMin == 0
thresholdMax == 200

(* ------------------------------ float64 -------------------------------- *)
PosInf == [inf |-> 1, v |-> 0]
NegInf == [inf |-> -1, v |-> 0]
Fin(x) == [inf |-> 0, v |-> x]
\* value < m and value > m for a finite value and m finite or infinite
ValueLt(x, m) == m.inf = 1 \/ (m.inf = 0 /\ x < m.v)
\* mutant: the comparison of the maximum is turned around
ValueGtTurned(x, m) == m.inf = -1 \/ (m.inf = 0 /\ x < m.v)
ValueGt(x, m) == m.inf = -1 \/ (m.inf = 0 /\ x > m.v)
Ratio(n, d) == [num |-> n, den |-> d]

RECURSIVE SumSeq(_)
SumSeq(s) == IF s = <<>> THEN 0 ELSE Head(s) + SumSeq(Tail(s))
RECURSIVE MinSeq(_)
MinSeq(s) == IF s = <<>> THEN PosInf
             ELSE IF ValueLt(Head(s), MinSeq(Tail(s))) THEN Fin(Head(s)) ELSE MinSeq(Tail(s))
RECURSIVE MaxSeq(_)
MaxSeq(s) == IF s = <<>> THEN NegInf
             ELSE IF ValueGt(Head(s), MaxSeq(Tail(s))) THEN Fin(Head(s)) ELSE MaxSeq(Tail(s))
\* the last n elements of s, in order
LastN(s, n) == IF Len(s) <= n THEN s ELSE SubSeq(s, Len(s) - n + 1, Len(s))

(* ------------------------- float64 arithmetic -------------------------- *)
\* Sum, Min, Max and the mean are float64: a significand of 53 bits, results
\* rounded to the nearest float, ties to the even significand.  The whole
\* numbers most models feed are exact at that width; where rounding matters
\* the format is reduced to MantissaBits bits and fed numbers that need them.
float64Bits == 53
RECURSIVE BitLen(_)
BitLen(n) == IF n = 0 THEN 0 ELSE 1 + BitLen(n \div 2)
\* the spacing of the floats with p significand bits at the whole number n >= 0
Ulp(n, p) == IF BitLen(n) <= p THEN 1 ELSE 2 ^ (BitLen(n) - p)
\* the float nearest to the fraction a / b (b > 0), for a quotient of at
\* least 2^(p-1) in magnitude
RoundRatio(a, b, p) ==
    LET m == IF a < 0 THEN 0 - a ELSE a
        u == Ulp(m \div b, p)
        q == (m \div b) \div u
        rest == m - q * u * b
        up == 2 * rest > u * b \/ (2 * rest = u * b /\ q % 2 = 1)
        r == (IF up THEN q + 1 ELSE q) * u
    IN  IF a < 0 THEN 0 - r ELSE r
\* the float nearest to the whole number n
RoundFloat(n, p) == RoundRatio(n, 1, p)

(* ------------------------------- JSON ---------------------------------- *)
\* A message is raw bytes: either not JSON at all (valid = FALSE) or a JSON
\* object, a map from keys to typed values.
Num(n) == [t |-> "number", n |-> n, s |-> ""]
Str(s) == [t |-> "string", n |-> 0, s |-> s]
Garbage == [valid |-> FALSE, obj |-> [k \in {} |-> Num(0)]]
Object(o) == [valid |-> TRUE, obj |-> o]
\* encoding/json: a key of the struct that is present must have the field's
\* JSON type; unknown keys are ignored; absent keys leave the zero value.
FieldOK(m, k, t) == k \notin DOMAIN m.obj \/ m.obj[k].t = t
NumField(m, k) == IF k \in DOMAIN m.obj THEN m.obj[k].n ELSE 0
StrField(m, k) == IF k \in DOMAIN m.obj THEN m.obj[k].s ELSE ""

\* mutant: a field of the wrong JSON type is left at its zero value and the
\* message is taken
UnmarshalSensorReadingLenient(m) ==
    IF m.valid
    THEN [err |-> FALSE,
          SensorID |-> IF FieldOK(m, "sensor_id", "string") THEN StrField(m, "sensor_id") ELSE "",
          Value |-> IF FieldOK(m, "value", "number") THEN NumField(m, "value") ELSE 0,
          Timestamp |-> IF FieldOK(m, "timestamp", "number") THEN NumField(m, "timestamp")
                        ELSE 0]
    ELSE [err |-> TRUE, SensorID |-> "", Value |-> 0, Timestamp |-> 0]

\* json.Unmarshal(data, &reading) with reading a SensorReading
UnmarshalSensorReading(m) ==
    IF m.valid /\ FieldOK(m, "sensor_id", "string") /\ FieldOK(m, "value", "number")
               /\ FieldOK(m, "timestamp", "number")
    THEN [err |-> FALSE, SensorID |-> StrField(m, "sensor_id"),
          Value |-> NumField(m, "value"), Timestamp |-> NumField(m, "timestamp")]
    ELSE [err |-> TRUE, SensorID |-> "", Value |-> 0, Timestamp |-> 0]

\* json.Unmarshal(msg.Data, &filtered) with filtered a FilteredReading
UnmarshalFilteredReading(m) ==
    IF m.valid /\ FieldOK(m, "sensor_id", "string") /\ FieldOK(m, "value", "number")
               /\ FieldOK(m, "timestamp", "number") /\ FieldOK(m, "edge_id", "string")
    THEN [err |-> FALSE, SensorID |-> StrField(m, "sensor_id"),
          Value |-> NumField(m, "value"), Timestamp |-> NumField(m, "timestamp"),
          EdgeID |-> StrField(m, "edge_id")]
    ELSE [err |-> TRUE, SensorID |-> "", Value |-> 0, Timestamp |-> 0, EdgeID |-> ""]

\* json.Unmarshal(msg.Data, &agg) with agg a map[string]interface{}: any JSON
\* object decodes
UnmarshalMap(m) == [err |-> ~m.valid, agg |-> m.obj]

(* ------------------------------ inputs --------------------------------- *)
Builds == {"tiered", "static"}
\* -5: critical / below min; 45: no alert; 65: warning; 205: critical / above max
Values == {-5, 45, 65, 205}
EdgeID == "edge-1"
SensorMsg(v) == Object([sensor_id |-> Str("sensor-07"), value |-> Num(v), timestamp |-> Num(1)])
\* "value" carries a string: encoding/json reports a type error
BadSensorMsg == Object([sensor_id |-> Str("sensor-07"), value |-> Str("n/a"), timestamp |-> Num(1)])
RawMsgs == {SensorMsg(v) : v \in Values} \cup {BadSensorMsg, Garbage}
NoiseThresholds == {Ratio(n, 2) : n \in 1..MaxNoiseNum}

VARIABLES
    \* edge configuration (flags)
    build, windowSize, noiseFilter,
    \* significand bits of the floating-point format the edge's totals are
    \* computed in
    significand,
    \* EdgeStats
    count, sum, min, max, windowValues, mu,
    \* processMessage: position, locals, and what it did for the current reading
    pc, reading, mean, lenSeen, variance, rejected, forwarded, alerted,
    \* aggregation timer goroutine
    dpc,
    \* what the edge published: edge.filtered readings, edge.alerts, aggregates
    nFiltered, lastFiltered, nAlerts, lastAlert, nAgg, lastAgg,
    \* history: messages received; totals and window before the current reading's
    \* update; publish counts when the current reading arrived; values pushed
    \* since the last drain; how the last drain ended if no update followed it
    received, pre, winBefore, pubBefore, pushed, lastDrain,
    \* cloud configuration (-max-readings) and clock (time.Now().Unix())
    maxReadings, now,
    \* GlobalStats; readingsCap is cap(stats.readings); sum, min, max are gSum,
    \* gMin, gMax here
    readings, readingsCap, edgeNodes, totalReadings, gSum, gMin, gMax, latencies,
    \* history: messages received on edge.filtered, values ingested as readings
    cloudReceived, ingested,
    \* GlobalStats.alerts and the messages received on edge.alerts
    alerts, alertsReceived,
    \* GlobalStats.mu (sync.RWMutex): the goroutine holding the write lock and
    \* the readers holding the read lock
    rwWriter, rwReaders,
    \* the edge.filtered callback step by step: position, message in hand
    ipc, cur,
    \* report() and the /stats handler: position, what each has computed so
    \* far, and how many runs were started
    rpc, obs, reportsStarted,
    \* dashboard configuration (-max-readings, -max-alerts)
    dMaxReadings, maxAlerts,
    \* DashboardData; TotalReadings, Min, Max, EdgeNodes, latencies, readings
    \* are dTotalReadings, dMin, dMax, dEdgeNodes, dLatencies, dReadings here
    dTotalReadings, dReadings, dMin, dMax, dEdgeNodes, ActiveEdgeNodes, dLatencies,
    RecentReadings, TotalAlerts, AlertsByType, RecentAlerts, LatencyHistory,
    \* the value getStats returned last
    dStats,
    \* history: messages the dashboard received on edge.filtered and on
    \* edge.alerts, getStats calls, values ingested as readings
    dReceived, dAlertsReceived, dSnapshots, dIngested,
    \* calculatePercentile on its own: arguments and result
    pct,
    \* the alert classification on its own: build, value and result
    cls,
    \* edge: whether the last nc.Publish call returned an error, and the last
    \* response of the /metrics handler
    pubErr, metrics,
    \* edge history: well-formed readings taken into the totals so far, and the
    \* sum of the count fields of the aggregates handed to nc.Publish so far
    nIngested, nAggregated,
    \* edge: the -jetstream flag, and the msg.Ack() calls of the consumer loop
    useJetStream, acked,
    \* sensor: SimulationState
    isDrifting, driftDuration, currentOffset, targetOffset,
    \* sensor history: what the last generateValue call drew and returned; the
    \* duration the current drift episode started with and its ticks so far
    generated, episode

cloudVars == <<maxReadings, now, readings, readingsCap, edgeNodes, totalReadings,
               gSum, gMin, gMax, latencies, cloudReceived, ingested>>

edgeVars == <<build, windowSize, noiseFilter, significand, count, sum, min, max, windowValues, mu,
              pc, reading, mean, lenSeen, variance, rejected, forwarded, alerted, dpc,
              nFiltered, lastFiltered, nAlerts, lastAlert, nAgg, lastAgg,
              received, pre, winBefore, pubBefore, pushed, lastDrain, pubErr, metrics,
              nIngested, nAggregated, useJetStream, acked>>

sensorVars == <<isDrifting, driftDuration, currentOffset, targetOffset, generated, episode>>

Totals == [count |-> count, sum |-> sum, min |-> min, max |-> max]
ZeroTotals == [count |-> 0, sum |-> 0, min |-> PosInf, max |-> NegInf]
NoReading == [err |-> TRUE, SensorID |-> "", Value |-> 0, Timestamp |-> 0]
NoMsg == [sensor_id |-> "", value |-> 0, timestamp |-> 0, edge_id |-> "", type |-> "",
          message |-> ""]
NoAgg == [edge_id |-> "", count |-> 0, mean |-> Ratio(0, 1), min |-> PosInf, max |-> NegInf]

reportVars == <<alerts, alertsReceived, rwWriter, rwReaders, ipc, cur, rpc, obs,
                reportsStarted>>

dashVars == <<dMaxReadings, maxAlerts, dTotalReadings, dReadings, dMin, dMax, dEdgeNodes,
              ActiveEdgeNodes, dLatencies, RecentReadings, TotalAlerts, AlertsByType,
              RecentAlerts, LatencyHistory, dStats, dReceived, dAlertsReceived,
              dSnapshots, dIngested>>

vars == <<edgeVars, cloudVars, reportVars, dashVars, pct, cls, sensorVars>>
\* everything the edge process does not own, and everything the cloud's
\* edge.filtered callback does not own
otherThanEdge == <<cloudVars, reportVars, dashVars, pct, cls, sensorVars>>
otherThanCloud == <<edgeVars, reportVars, dashVars, pct, cls, sensorVars>>

\* the /metrics handler has not answered yet
NoMetrics == [served |-> FALSE, count |-> 0, mean |-> Ratio(0, 1), encoded |-> FALSE]

\* main: stats := &GlobalStats{...}
InitCloud ==
    /\ maxReadings \in 1..MaxCap
    /\ now = 0
    /\ readings = <<>> /\ readingsCap = maxReadings
    /\ edgeNodes = <<>>
    /\ totalReadings = 0 /\ gSum = 0 /\ gMin = PosInf /\ gMax = NegInf
    /\ latencies = <<>>
    /\ cloudReceived = 0 /\ ingested = <<>>

\* main: EdgeStats{...}
InitEdge ==
    /\ build \in Builds
    /\ windowSize \in 1..MaxWindow
    /\ noiseFilter \in NoiseThresholds
    /\ significand \in {float64Bits, MantissaBits}
    /\ count = 0 /\ sum = 0 /\ min = PosInf /\ max = NegInf
    /\ windowValues = <<>>
    /\ mu = "free"
    /\ pc = "recv" /\ reading = NoReading /\ mean = Ratio(0, 1)
    /\ lenSeen = 0 /\ variance = 0
    /\ rejected = FALSE /\ forwarded = FALSE /\ alerted = FALSE
    /\ dpc = "tick"
    /\ nFiltered = 0 /\ lastFiltered = NoMsg
    /\ nAlerts = 0 /\ lastAlert = NoMsg
    /\ nAgg = 0 /\ lastAgg = NoAgg
    /\ received = 0 /\ pre = ZeroTotals /\ winBefore = <<>>
    /\ pubBefore = [filtered |-> 0, alerts |-> 0]
    /\ pushed = <<>> /\ lastDrain = "none"
    /\ pubErr = FALSE /\ metrics = NoMetrics
    /\ nIngested = 0 /\ nAggregated = 0
    /\ useJetStream \in BOOLEAN /\ acked = 0

\* the goroutines that take the read lock: report() on the ticker and the
\* /stats handler of the HTTP build
Readers == {"report", "stats"}
NoCur == [kind |-> "none", msg |-> Garbage, latency |-> 0]
NoObs == [done |-> FALSE, empty |-> FALSE, total |-> 0, mean |-> Ratio(0, 1), var |-> 0,
          n |-> 0, min |-> PosInf, max |-> NegInf, p95 |-> 0, p99 |-> 0,
          avgLatency |-> Ratio(0, 1), alerts |-> 0, edges |-> 0]

\* main: the rest of GlobalStats{...}; no goroutine holds the lock
InitReport ==
    /\ alerts = <<>> /\ alertsReceived = 0
    /\ rwWriter = "none" /\ rwReaders = {}
    /\ ipc = "idle" /\ cur = NoCur
    /\ rpc = [r \in Readers |-> "idle"]
    /\ obs = [r \in Readers |-> NoObs]
    /\ reportsStarted = 0

\* Duration.String() of a whole number of milliseconds; "" while unset
NoDuration == [set |-> FALSE, ms |-> 0]
DurationMs(n) == [set |-> TRUE, ms |-> n]
\* the zero DashboardData getStats would copy
NoStats == [Mean |-> Ratio(0, 1), StdDev |-> Ratio(0, 1), Min |-> -1, Max |-> -1,
            TotalReadings |-> 0, TotalAlerts |-> 0, ActiveEdgeNodes |-> 0,
            AvgLatency |-> NoDuration, LatencyP95 |-> NoDuration,
            LatencyP99 |-> NoDuration, LatencyHistory |-> <<>>]

\* main: dashboard := &DashboardData{...}
InitDash ==
    /\ dMaxReadings \in 1..MaxCap
    /\ maxAlerts \in 1..MaxDashAlerts
    /\ dTotalReadings = 0 /\ dReadings = <<>>
    /\ dMin = -1 /\ dMax = -1
    /\ dEdgeNodes = <<>> /\ ActiveEdgeNodes = 0
    /\ dLatencies = <<>>
    /\ RecentReadings = <<>>
    /\ TotalAlerts = 0 /\ AlertsByType = <<>> /\ RecentAlerts = <<>>
    /\ LatencyHistory = <<>>
    /\ dStats = NoStats
    /\ dReceived = 0 /\ dAlertsReceived = 0 /\ dSnapshots = 0 /\ dIngested = <<>>

\* calculatePercentile has not been called
NoPct == [latencies |-> <<>>, p |-> 0, called |-> FALSE, result |-> 0, after |-> <<>>]
\* no reading has been classified on its own
NoCls == [build |-> "tiered", value |-> 0, called |-> FALSE, type |-> "", message |-> ""]

\* generateValue has not been called; no drift episode has started
NoGenerated == [called |-> FALSE, spike |-> 0, noise |-> 0, value |-> 0]
NoEpisode == [d |-> 0, ticks |-> 0]
\* simState = &SimulationState{}
InitSensor ==
    /\ isDrifting = FALSE /\ driftDuration = 0
    /\ currentOffset = 0 /\ targetOffset = 0
    /\ generated = NoGenerated /\ episode = NoEpisode

\* the processes a model leaves out stay as constructed
DashIdle == InitDash /\ dMaxReadings = 1 /\ maxAlerts = 1
EdgeIdle ==
    /\ InitEdge /\ build = "static" /\ windowSize = 1 /\ noiseFilter = Ratio(1, 2)
    /\ significand = float64Bits /\ ~useJetStream

(* --------------------- edge: pure parts of the code -------------------- *)
\* mutant: a reading that repeats the current maximum is not counted
UpdateTotalsOncePerMax(t, x) ==
    [count |-> IF t.max = Fin(x) THEN t.count ELSE t.count + 1,
     sum   |-> RoundFloat(t.sum + x, significand),
     min   |-> IF ValueLt(x, t.min) THEN Fin(x) ELSE t.min,
     max   |-> IF ValueGt(x, t.max) THEN Fin(x) ELSE t.max]

\* stats.count++ ... stats.max = reading.Value
UpdateTotals(t, x) ==
    [count |-> t.count + 1,
     sum   |-> RoundFloat(t.sum + x, significand),
     min   |-> IF ValueLt(x, t.min) THEN Fin(x) ELSE t.min,
     max   |-> IF ValueGt(x, t.max) THEN Fin(x) ELSE t.max]

\* mutant: the newest value is dropped instead of the oldest
PushWindowDropNewest(w, x, n) ==
    LET a == Append(w, x) IN IF Len(a) > n THEN SubSeq(a, 1, n) ELSE a

\* append, then drop the oldest when longer than windowSize
PushWindow(w, x, n) ==
    LET a == Append(w, x) IN IF Len(a) > n THEN Tail(a) ELSE a

\* variance += (v - mean) * (v - mean) over the window, times mean.den^2
RECURSIVE Variance(_, _)
Variance(w, m) ==
    IF w = <<>> THEN 0
    ELSE (Head(w) * m.den - m.num) * (Head(w) * m.den - m.num) + Variance(Tail(w), m)

\* mutant: one sample is taken for history
HasHistoryOne(n) == n > 0

\* if len(stats.windowValues) > 1
HasHistory(n) == n > 1

\* stdDev as line 547 leaves it: 0 when the loop was skipped; otherwise
\* math.Sqrt(variance / len), with len read again at that line: x/0 is +Inf
\* for x > 0 and NaN for x = 0.
StdDev(seen, var, len) ==
    IF ~HasHistory(seen) THEN [kind |-> "zero", var |-> 0, len |-> 1]
    ELSE IF len = 0 THEN [kind |-> IF var > 0 THEN "inf" ELSE "nan", var |-> var, len |-> 0]
    ELSE [kind |-> IF var > 0 THEN "pos" ELSE "zero", var |-> var, len |-> len]

\* mutant: the filter remembers its calls and drops only on every other one
NoiseRejectEveryOther(x, m, sd, k) ==
    /\ received % 2 = 0
    /\ sd.kind = "pos"
    /\ k.den * k.den * (x * m.den - m.num) * (x * m.den - m.num) * sd.len
         > k.num * k.num * sd.var

\* stdDev > 0 && math.Abs(reading.Value-mean) > noiseFilter*stdDev, squared
\* and cleared of denominators (sd.var carries mean.den^2)
NoiseReject(x, m, sd, k) ==
    /\ sd.kind = "pos"
    /\ k.den * k.den * (x * m.den - m.num) * (x * m.den - m.num) * sd.len
         > k.num * k.num * sd.var

\* mutant: the warning bounds are checked first
ClassifyTieredWarningFirst(x) ==
    IF x < 40 \/ x > 60 THEN [type |-> "warning", message |-> "Process drift detected (Warning)"]
    ELSE IF x < 0 \/ x > 100 THEN [type |-> "critical", message |-> "Critical value detected (Spike)"]
    ELSE [type |-> "", message |-> ""]

\* the alert Type and Message of the tiered build ("" = no alert)
ClassifyTiered(x) ==
    IF x < 0 \/ x > 100 THEN [type |-> "critical", message |-> "Critical value detected (Spike)"]
    ELSE IF x < 40 \/ x > 60 THEN [type |-> "warning", message |-> "Process drift detected (Warning)"]
    ELSE [type |-> "", message |-> ""]

\* mutant: only the minimum is checked
ClassifyStaticLowOnly(x) ==
    IF x < thresholdMin
    THEN [type |-> "threshold", message |-> "Value below minimum threshold"]
    ELSE [type |-> "", message |-> ""]

\* the alert Type and Message of the static-threshold build
ClassifyStatic(x) ==
    IF x < thresholdMin \/ x > thresholdMax
    THEN [type |-> "threshold",
          message |-> IF x < thresholdMin THEN "Value below minimum threshold"
                      ELSE "Value above maximum threshold"]
    ELSE [type |-> "", message |-> ""]

Classify(b, x) == IF b = "tiered" THEN ClassifyTiered(x) ELSE ClassifyStatic(x)

\* mutant: the relay id is left out
FilteredWithoutRelay(r, e) ==
    [sensor_id |-> r.SensorID, value |-> r.Value, timestamp |-> r.Timestamp,
     edge_id |-> "", type |-> "", message |-> ""]

\* the FilteredReading built from a reading
Filtered(r, e) ==
    [sensor_id |-> r.SensorID, value |-> r.Value, timestamp |-> r.Timestamp,
     edge_id |-> e, type |-> "", message |-> ""]

\* the Alert built from a reading
AlertOf(r, e, c) ==
    [sensor_id |-> r.SensorID, value |-> r.Value, timestamp |-> r.Timestamp,
     edge_id |-> e, type |-> c.type, message |-> c.message]

\* mutant: the sum is published as the mean
AggregateSumAsMean(e, t) ==
    [edge_id |-> e, count |-> t.count, mean |-> Ratio(t.sum, 1),
     min |-> t.min, max |-> t.max]

\* mean := s.Sum / float64(s.Count): rounded to the nearest float at the
\* reduced width; at float64's width kept as the exact fraction, which is
\* within 2^-53 of the float and is what the comparisons on it read
FloatDiv(a, b) ==
    IF significand >= float64Bits THEN Ratio(a, b)
    ELSE Ratio(RoundRatio(a, b, significand), 1)

\* mutant: min and max change places in the aggregate
AggregateMinMaxSwapped(e, t) ==
    [edge_id |-> e, count |-> t.count, mean |-> FloatDiv(t.sum, t.count),
     min |-> t.max, max |-> t.min]

\* the aggregate map published by publishAggregate
Aggregate(e, t) ==
    [edge_id |-> e, count |-> t.count, mean |-> FloatDiv(t.sum, t.count),
     min |-> t.min, max |-> t.max]

\* mutant: the count survives the reset
ResetTotalsKeepCount == [count |-> count, sum |-> 0, min |-> PosInf, max |-> NegInf]

\* "Reset stats"
ResetTotals == [count |-> 0, sum |-> 0, min |-> PosInf, max |-> NegInf]
\* mutant: the drain leaves the window as it is
ResetWindowKept(w) == w
\* s.WindowValues = s.WindowValues[:0]
ResetWindow(w) == SubSeq(w, 1, 0)

\* mutant: a failed publish ends the function
AfterPublishReturn(e) == IF e THEN "return" ELSE "continue"

\* if err := nc.Publish(...); err != nil { log.Printf(...) }: the error e is
\* logged and the function goes on, as after a publish that succeeded
AfterPublish(e) == "continue"

\* mutant: the threshold check comes straight after the update
AfterUpdateAlertFirst(b) == "alert"

\* where processMessage goes after stats.mu.Unlock(): the static build to its
\* noise filter, the tiered build to "Create filtered reading"
AfterUpdate(b) == IF b = "static" THEN "len" ELSE "forward"

\* mutant: the message is acknowledged as soon as it is fetched
AckDueOnFetch == useJetStream /\ acked < received

\* the JetStream consumer loop stands at msg.Ack(): processMessage has
\* returned for the message fetched last and it is not acknowledged yet
AckDue == useJetStream /\ pc = "recv" /\ acked < received

(* --------------------------- edge: actions ----------------------------- *)
\* processMessage entry: json.Unmarshal; a malformed message is logged and skipped
Receive(m) ==
    /\ pc = "recv"
    /\ received < MaxIngest
    /\ useJetStream => ~AckDue
    /\ received' = received + 1
    /\ LET r == UnmarshalSensorReading(m) IN
         IF r.err
         THEN UNCHANGED <<pc, reading, rejected, forwarded, alerted, pubBefore>>
         ELSE /\ pc' = "lock"
              /\ reading' = r
              /\ rejected' = FALSE /\ forwarded' = FALSE /\ alerted' = FALSE
              /\ pubBefore' = [filtered |-> nFiltered, alerts |-> nAlerts]
    /\ UNCHANGED <<build, windowSize, noiseFilter, significand, useJetStream, count, sum, min, max, windowValues, mu,
                   mean, lenSeen, variance, dpc, nFiltered, lastFiltered, nAlerts,
                   lastAlert, nAgg, lastAgg, pre, winBefore, pushed, lastDrain>>
    /\ UNCHANGED <<pubErr, metrics, nIngested, nAggregated, acked>>
    /\ UNCHANGED otherThanEdge

\* stats.mu.Lock()
IngestLock ==
    /\ pc = "lock"
    /\ mu = "free"
    /\ mu' = "ingest"
    /\ pc' = "update"
    /\ UNCHANGED <<build, windowSize, noiseFilter, significand, useJetStream, count, sum, min, max, windowValues,
                   reading, mean, lenSeen, variance, rejected, forwarded, alerted, dpc,
                   nFiltered, lastFiltered, nAlerts, lastAlert, nAgg, lastAgg,
                   received, pre, winBefore, pubBefore, pushed, lastDrain>>
    /\ UNCHANGED <<pubErr, metrics, nIngested, nAggregated, acked>>
    /\ UNCHANGED otherThanEdge

\* "Update statistics" up to stats.mu.Unlock(); the static build also takes
\* mean := stats.sum / float64(stats.count) here
IngestUpdate ==
    /\ pc = "update"
    /\ mu = "ingest"
    /\ LET t == UpdateTotals(Totals, reading.Value) IN
         /\ count' = t.count /\ sum' = t.sum /\ min' = t.min /\ max' = t.max
         /\ mean' = IF build = "static" THEN Ratio(t.sum, t.count) ELSE mean
    /\ windowValues' = PushWindow(windowValues, reading.Value, windowSize)
    /\ mu' = "free"
    /\ lenSeen' = 0 /\ variance' = 0
    /\ pc' = AfterUpdate(build)
    /\ pre' = Totals /\ winBefore' = windowValues
    /\ pushed' = Append(pushed, reading.Value)
    /\ lastDrain' = "none"
    /\ nIngested' = nIngested + 1
    /\ UNCHANGED <<build, windowSize, noiseFilter, significand, useJetStream, reading, rejected, forwarded, alerted,
                   dpc, nFiltered, lastFiltered, nAlerts, lastAlert, nAgg, lastAgg, received,
                   pubBefore>>
    /\ UNCHANGED <<pubErr, metrics, nAggregated, acked>>
    /\ UNCHANGED otherThanEdge

\* static build, after the unlock: if len(stats.windowValues) > 1
ReadLen ==
    /\ pc = "len"
    /\ lenSeen' = Len(windowValues)
    /\ pc' = IF HasHistory(Len(windowValues)) THEN "range" ELSE "filter"
    /\ UNCHANGED <<build, windowSize, noiseFilter, significand, useJetStream, count, sum, min, max, windowValues, mu,
                   reading, mean, variance, rejected, forwarded, alerted, dpc,
                   nFiltered, lastFiltered, nAlerts, lastAlert, nAgg, lastAgg,
                   received, pre, winBefore, pubBefore, pushed, lastDrain>>
    /\ UNCHANGED <<pubErr, metrics, nIngested, nAggregated, acked>>
    /\ UNCHANGED otherThanEdge

\* static build: for _, v := range stats.windowValues { variance += ... }
RangeWindow ==
    /\ pc = "range"
    /\ variance' = Variance(windowValues, mean)
    /\ pc' = "filter"
    /\ UNCHANGED <<build, windowSize, noiseFilter, significand, useJetStream, count, sum, min, max, windowValues, mu,
                   reading, mean, lenSeen, rejected, forwarded, alerted, dpc,
                   nFiltered, lastFiltered, nAlerts, lastAlert, nAgg, lastAgg,
                   received, pre, winBefore, pubBefore, pushed, lastDrain>>
    /\ UNCHANGED <<pubErr, metrics, nIngested, nAggregated, acked>>
    /\ UNCHANGED otherThanEdge

\* static build: stdDev = math.Sqrt(variance / len(windowValues)) and the
\* noise filter; a rejected reading returns
Filter ==
    /\ pc = "filter"
    /\ LET sd == StdDev(lenSeen, variance, Len(windowValues)) IN
         IF NoiseReject(reading.Value, mean, sd, noiseFilter)
         THEN rejected' = TRUE /\ pc' = "recv"
         ELSE rejected' = FALSE /\ pc' = "forward"
    /\ UNCHANGED <<build, windowSize, noiseFilter, significand, useJetStream, count, sum, min, max, windowValues, mu,
                   reading, mean, lenSeen, variance, forwarded, alerted, dpc,
                   nFiltered, lastFiltered, nAlerts, lastAlert, nAgg, lastAgg,
                   received, pre, winBefore, pubBefore, pushed, lastDrain>>
    /\ UNCHANGED <<pubErr, metrics, nIngested, nAggregated, acked>>
    /\ UNCHANGED otherThanEdge

\* nc.Publish("edge.filtered", filteredData)
Forward ==
    /\ pc = "forward"
    /\ nFiltered' = nFiltered + 1
    /\ lastFiltered' = Filtered(reading, EdgeID)
    /\ forwarded' = TRUE
    /\ \E e \in BOOLEAN :
         /\ pubErr' = e
         /\ pc' = IF AfterPublish(e) = "continue" THEN "alert" ELSE "recv"
    /\ UNCHANGED <<metrics, nIngested, nAggregated, acked>>
    /\ UNCHANGED <<build, windowSize, noiseFilter, significand, useJetStream, count, sum, min, max, windowValues, mu,
                   reading, mean, lenSeen, variance, rejected, alerted, dpc,
                   nAlerts, lastAlert, nAgg, lastAgg, received, pre, winBefore, pubBefore, pushed, lastDrain>>
    /\ UNCHANGED otherThanEdge

\* "Check for threshold violations": nc.Publish("edge.alerts", alertData)
CheckAlert ==
    /\ pc = "alert"
    /\ LET c == Classify(build, reading.Value) IN
         IF c.type # ""
         THEN /\ nAlerts' = nAlerts + 1
              /\ lastAlert' = AlertOf(reading, EdgeID, c)
              /\ alerted' = TRUE
              /\ pubErr' \in BOOLEAN
         ELSE UNCHANGED <<nAlerts, lastAlert, alerted, pubErr>>
    /\ pc' = "recv"
    /\ UNCHANGED <<metrics, nIngested, nAggregated, acked>>
    /\ UNCHANGED <<build, windowSize, noiseFilter, significand, useJetStream, count, sum, min, max, windowValues, mu,
                   reading, mean, lenSeen, variance, rejected, forwarded, dpc,
                   nFiltered, lastFiltered, nAgg, lastAgg, received, pre, winBefore, pubBefore, pushed, lastDrain>>
    /\ UNCHANGED otherThanEdge

\* the ticker fires: publishAggregate takes s.mu.Lock()
DrainLock ==
    /\ dpc = "tick"
    /\ mu = "free"
    /\ mu' = "drain"
    /\ dpc' = "body"
    /\ UNCHANGED <<build, windowSize, noiseFilter, significand, useJetStream, count, sum, min, max, windowValues,
                   pc, reading, mean, lenSeen, variance, rejected, forwarded, alerted,
                   nFiltered, lastFiltered, nAlerts, lastAlert, nAgg, lastAgg,
                   received, pre, winBefore, pubBefore, pushed, lastDrain>>
    /\ UNCHANGED <<pubErr, metrics, nIngested, nAggregated, acked>>
    /\ UNCHANGED otherThanEdge

\* publishAggregate under the lock, to the deferred Unlock
DrainBody ==
    /\ dpc = "body"
    /\ mu = "drain"
    /\ IF count = 0
       THEN /\ UNCHANGED <<count, sum, min, max, windowValues, nAgg, lastAgg, pubErr>>
            /\ UNCHANGED nAggregated
            /\ lastDrain' = "empty"
            /\ pushed' = <<>>
       ELSE /\ nAgg' = nAgg + 1
            /\ lastAgg' = Aggregate(EdgeID, Totals)
            /\ nAggregated' = nAggregated + Aggregate(EdgeID, Totals).count
            /\ \E e \in BOOLEAN :
                 /\ pubErr' = e
                 /\ IF AfterPublish(e) = "continue"
                    THEN /\ count' = ResetTotals.count /\ sum' = ResetTotals.sum
                         /\ min' = ResetTotals.min /\ max' = ResetTotals.max
                         /\ windowValues' = ResetWindow(windowValues)
                         /\ lastDrain' = "emitted"
                         /\ pushed' = <<>>
                    ELSE UNCHANGED <<count, sum, min, max, windowValues, lastDrain, pushed>>
    /\ UNCHANGED <<metrics, nIngested, acked>>
    /\ mu' = "free"
    /\ dpc' = "tick"
    /\ UNCHANGED <<build, windowSize, noiseFilter, significand, useJetStream, pc, reading, mean, lenSeen, variance,
                   rejected, forwarded, alerted, nFiltered, lastFiltered, nAlerts,
                   lastAlert, received, pre, winBefore, pubBefore>>
    /\ UNCHANGED otherThanEdge

\* JetStream mode: if err := msg.Ack(); err != nil { log.Printf(...) }; an
\* error of the call is only logged, and the loop goes on to msgs.Next()
Ack ==
    /\ AckDue
    /\ acked' = acked + 1
    /\ UNCHANGED <<build, windowSize, noiseFilter, significand, useJetStream, count, sum,
                   min, max, windowValues, mu, pc, reading, mean, lenSeen, variance,
                   rejected, forwarded, alerted, dpc, nFiltered, lastFiltered, nAlerts,
                   lastAlert, nAgg, lastAgg, received, pre, winBefore, pubBefore, pushed,
                   lastDrain, pubErr, metrics, nIngested, nAggregated>>
    /\ UNCHANGED otherThanEdge

NextEdge ==
    \/ \E m \in RawMsgs : Receive(m)
    \/ IngestLock
    \/ IngestUpdate
    \/ ReadLen
    \/ RangeWindow
    \/ Filter
    \/ Forward
    \/ CheckAlert
    \/ DrainLock
    \/ DrainBody

\* the edge alone; the cloud stays as constructed
InitEdgeAlone ==
    /\ InitEdge /\ significand = float64Bits /\ ~useJetStream /\ InitCloud /\ maxReadings = 1
    /\ InitReport /\ DashIdle /\ pct = NoPct /\ cls = NoCls /\ InitSensor
SpecEdge == InitEdgeAlone /\ [][NextEdge]_vars

(* -------------------- cloud: pure parts of the code -------------------- *)
\* runtime malloc size classes up to 256 bytes (the gc toolchain's allocator)
SizeClasses == {8, 16, 24, 32, 48, 64, 80, 96, 112, 128, 144, 160, 176, 192, 208,
                224, 240, 256}
\* roundupsize: the smallest size class holding n bytes (n <= 256 here)
RoundUpSize(n) == CHOOSE c \in SizeClasses :
                      c >= n /\ \A d \in SizeClasses : d >= n => c <= d
\* the capacity append gives a []float64 of capacity oldCap that must hold
\* newLen elements: double a small slice, then round up to a size class
GrowCap(oldCap, newLen) ==
    LET newcap == IF newLen > oldCap + oldCap THEN newLen ELSE oldCap + oldCap
    IN  RoundUpSize(newcap * 8) \div 8

\* "Keep readings in sliding window": stats.readings[1:] when len >= cap
\* (which also gives up one element of capacity), then append
AppendReading(r, c, x) ==
    LET full == Len(r) >= c
        r1 == IF full THEN Tail(r) ELSE r
        c1 == IF full THEN c - 1 ELSE c
    IN  [r |-> Append(r1, x),
         cap |-> IF Len(r1) + 1 > c1 THEN GrowCap(c1, Len(r1) + 1) ELSE c1]

\* stats.edgeNodes[id] += n on a Go map: a missing key counts from 0
AddEdge(nodes, id, n) ==
    IF id \in DOMAIN nodes THEN [nodes EXCEPT ![id] = @ + n] ELSE nodes @@ (id :> n)

\* time.Duration(now-reading.Timestamp) * time.Second, kept in seconds
Latency(t, ts) == t - ts

\* stats.latencies = append(...); drop the oldest past 10000
maxLatencies == 10000
\* mutant: past 10000 latencies the newest is dropped
PushLatencyDropNewest(l, d) ==
    LET a == Append(l, d) IN IF Len(a) > maxLatencies THEN SubSeq(a, 1, maxLatencies) ELSE a

PushLatency(l, d) ==
    LET a == Append(l, d) IN IF Len(a) > maxLatencies THEN Tail(a) ELSE a

(* ---------------------------- cloud: inputs ---------------------------- *)
CloudValues == {10, 20}
EdgeIDs == {"edge-1", "edge-2"}
FilteredMsg(x, e) ==
    Object([sensor_id |-> Str("sensor-07"), value |-> Num(x), timestamp |-> Num(1),
            edge_id |-> Str(e)])
\* json.Marshal of the aggregate map; the fraction of the mean is dropped, no
\* decoder here reads it
MarshalAggregate(a, ts) ==
    Object([edge_id |-> Str(a.edge_id), count |-> Num(a.count),
            mean |-> Num(a.mean.num \div a.mean.den), min |-> Num(a.min.v),
            max |-> Num(a.max.v), timestamp |-> Num(ts)])
TotalsOf(s) == [count |-> Len(s), sum |-> SumSeq(s), min |-> MinSeq(s), max |-> MaxSeq(s)]
FilteredMsgs == {FilteredMsg(x, e) : x \in CloudValues, e \in EdgeIDs}
\* what an edge publishes after ingesting 45 and 65
AggregateMsgs == {MarshalAggregate(Aggregate("edge-1", TotalsOf(<<45, 65>>)), 1)}
\* an aggregate from a publisher that stamps RFC 3339 time: no FilteredReading
OddAggregate ==
    Object([edge_id |-> Str("edge-2"), count |-> Num(2), mean |-> Num(15),
            timestamp |-> Str("2024-01-01T12:00:00Z")])
CloudMsgs == FilteredMsgs \cup AggregateMsgs \cup {OddAggregate, Garbage}

(* --------------------------- cloud: actions ---------------------------- *)
\* processFilteredReading
ProcessFilteredReading(r) ==
    /\ totalReadings' = totalReadings + 1
    /\ gSum' = gSum + r.Value
    /\ gMin' = IF ValueLt(r.Value, gMin) THEN Fin(r.Value) ELSE gMin
    /\ gMax' = IF ValueGt(r.Value, gMax) THEN Fin(r.Value) ELSE gMax
    /\ LET a == AppendReading(readings, readingsCap, r.Value) IN
         readings' = a.r /\ readingsCap' = a.cap
    /\ edgeNodes' = AddEdge(edgeNodes, r.EdgeID, 1)
    /\ latencies' = PushLatency(latencies, Latency(now, r.Timestamp))
    /\ ingested' = Append(ingested, r.Value)

\* processAggregate
ProcessAggregate(agg) ==
    /\ edgeNodes' = IF /\ "edge_id" \in DOMAIN agg /\ agg["edge_id"].t = "string"
                       /\ "count" \in DOMAIN agg /\ agg["count"].t = "number"
                    THEN AddEdge(edgeNodes, agg["edge_id"].s, agg["count"].n)
                    ELSE edgeNodes
    /\ UNCHANGED <<totalReadings, gSum, gMin, gMax, readings, readingsCap, latencies,
                   ingested>>

\* the edge.filtered subscription callback
OnFiltered(m) ==
    /\ cloudReceived < MaxCloudMsgs
    /\ cloudReceived' = cloudReceived + 1
    /\ LET f == UnmarshalFilteredReading(m) IN
         IF f.err
         THEN LET a == UnmarshalMap(m) IN
                IF ~a.err THEN ProcessAggregate(a.agg)
                ELSE UNCHANGED <<totalReadings, gSum, gMin, gMax, readings, readingsCap,
                                 latencies, edgeNodes, ingested>>
         ELSE ProcessFilteredReading(f)
    /\ UNCHANGED <<maxReadings, now>>
    /\ UNCHANGED otherThanCloud

\* a second passes
Tick ==
    /\ now < MaxClock
    /\ now' = now + 1
    /\ UNCHANGED <<maxReadings, readings, readingsCap, edgeNodes, totalReadings,
                   gSum, gMin, gMax, latencies, cloudReceived, ingested>>
    /\ UNCHANGED otherThanCloud

NextCloud ==
    \/ \E m \in CloudMsgs : OnFiltered(m)
    \/ Tick

\* the cloud alone; the edge stays as constructed
InitCloudAlone ==
    /\ InitCloud /\ InitEdge
    /\ build = "static" /\ windowSize = 1 /\ noiseFilter = Ratio(1, 2)
    /\ significand = float64Bits /\ ~useJetStream
    /\ InitReport /\ DashIdle /\ pct = NoPct /\ cls = NoCls /\ InitSensor
SpecCloud == InitCloudAlone /\ [][NextCloud]_vars

(* ------------------------- alerts on the wire -------------------------- *)
\* json.Marshal(alert) as the edge publishes it on edge.alerts
MarshalAlert(a) ==
    Object([sensor_id |-> Str(a.sensor_id), value |-> Num(a.value),
            timestamp |-> Num(a.timestamp), edge_id |-> Str(a.edge_id),
            type |-> Str(a.type), message |-> Str(a.message)])
\* json.Unmarshal(msg.Data, &alert) with alert an Alert
UnmarshalAlert(m) ==
    IF m.valid /\ FieldOK(m, "sensor_id", "string") /\ FieldOK(m, "value", "number")
               /\ FieldOK(m, "timestamp", "number") /\ FieldOK(m, "edge_id", "string")
               /\ FieldOK(m, "type", "string") /\ FieldOK(m, "message", "string")
    THEN [err |-> FALSE, sensor_id |-> StrField(m, "sensor_id"),
          value |-> NumField(m, "value"), timestamp |-> NumField(m, "timestamp"),
          edge_id |-> StrField(m, "edge_id"), type |-> StrField(m, "type"),
          message |-> StrField(m, "message")]
    ELSE [err |-> TRUE, sensor_id |-> "", value |-> 0, timestamp |-> 0, edge_id |-> "",
          type |-> "", message |-> ""]
\* the alerts the tiered edge publishes for the readings 65 (warning) and 205
\* (critical), and bytes that are no JSON
AlertMsgs ==
    {MarshalAlert(AlertOf(UnmarshalSensorReading(SensorMsg(v)), EdgeID, ClassifyTiered(v))) :
        v \in {65, 205}}
AlertInputs == AlertMsgs \cup {Garbage}

(* ------------------ dashboard: pure parts of the code ------------------ *)
\* readings that reach the dashboard: below zero, and positive
DashValues == {-5, 10, 20}
DashMsgs == {FilteredMsg(x, "edge-1") : x \in DashValues} \cup {Garbage}

\* latency := time.Duration(now.UnixMilli()-reading.Timestamp) * time.Millisecond,
\* clamped at 0; t is the clock in whole seconds, the result is in ms
DashLatency(t, ts) ==
    LET d == t * 1000 - ts IN IF d < 0 THEN 0 ELSE d

\* append, then drop the oldest when longer than n (d.readings; d.latencies)
DashPush(w, x, n) ==
    LET a == Append(w, x) IN IF Len(a) > n THEN Tail(a) ELSE a

\* if d.Min < 0 || reading.Value < d.Min { d.Min = reading.Value }
DashMin(m, x) == IF m < 0 \/ x < m THEN x ELSE m
\* if d.Max < 0 || reading.Value > d.Max { d.Max = reading.Value }
DashMax(m, x) == IF m < 0 \/ x > m THEN x ELSE m

\* d.latencies keeps the last 1000
dashLatencyCap == 1000

\* append([]T{display}, list...), cut to the first n
RecentPush(l, d, n) ==
    LET a == <<d>> \o l IN IF Len(a) > n THEN SubSeq(a, 1, n) ELSE a

ReadingDisplay(r, t) ==
    [sensor_id |-> r.SensorID, value |-> r.Value, edge_id |-> r.EdgeID, timestamp |-> t]
AlertDisplay(a, t) ==
    [sensor_id |-> a.sensor_id, value |-> a.value, edge_id |-> a.edge_id,
     type |-> a.type, message |-> a.message, timestamp |-> t]

\* "Update history (keep last 60 points)"
historyCap == 60
PushHistory(h, x) ==
    LET a == Append(h, x) IN IF Len(a) > historyCap THEN Tail(a) ELSE a

\* the two nested loops that sort the copy: position i takes the smallest of
\* positions i..len by exchanges
Swap(s, i, j) == [s EXCEPT ![i] = s[j], ![j] = s[i]]
RECURSIVE SortInner(_, _, _)
SortInner(s, i, j) ==
    IF j > Len(s) THEN s
    ELSE SortInner(IF s[i] > s[j] THEN Swap(s, i, j) ELSE s, i, j + 1)
RECURSIVE SortOuter(_, _)
SortOuter(s, i) ==
    IF i > Len(s) - 1 THEN s ELSE SortOuter(SortInner(s, i, i + 1), i + 1)
ExchangeSort(s) == SortOuter(s, 1)

\* mutant: the index is rounded up
PercentileIndexUp(len, p) ==
    LET index == (len * p + 99) \div 100 IN IF index >= len THEN len - 1 ELSE index

\* int(float64(len) * float64(p) / 100.0), and int(float64(len) * 0.95): the
\* product of two small integers is exact in float64 and the quotient's
\* rounding never reaches the next integer, so the conversion truncates the
\* exact quotient; then the index is clamped to len-1
PercentileIndex(len, p) ==
    LET index == (len * p) \div 100 IN IF index >= len THEN len - 1 ELSE index

(* ------------------------- dashboard: actions -------------------------- *)
\* processReading
DashProcessReading(r) ==
    /\ dTotalReadings' = dTotalReadings + 1
    /\ dReadings' = DashPush(dReadings, r.Value, dMaxReadings)
    /\ dMin' = DashMin(dMin, r.Value)
    /\ dMax' = DashMax(dMax, r.Value)
    /\ dEdgeNodes' = AddEdge(dEdgeNodes, r.EdgeID, 1)
    /\ ActiveEdgeNodes' = Cardinality(DOMAIN AddEdge(dEdgeNodes, r.EdgeID, 1))
    /\ dLatencies' = DashPush(dLatencies, DashLatency(now, r.Timestamp), dashLatencyCap)
    /\ RecentReadings' = RecentPush(RecentReadings, ReadingDisplay(r, now), dMaxReadings)
    /\ dIngested' = Append(dIngested, r.Value)

\* the dashboard's edge.filtered subscription callback
DashOnFiltered(m) ==
    /\ dReceived' = dReceived + 1
    /\ LET f == UnmarshalFilteredReading(m) IN
         IF f.err
         THEN UNCHANGED <<dTotalReadings, dReadings, dMin, dMax, dEdgeNodes,
                          ActiveEdgeNodes, dLatencies, RecentReadings, dIngested>>
         ELSE DashProcessReading(f)
    /\ UNCHANGED <<dMaxReadings, maxAlerts, TotalAlerts, AlertsByType, RecentAlerts,
                   LatencyHistory, dStats, dAlertsReceived, dSnapshots>>
    /\ UNCHANGED <<edgeVars, cloudVars, reportVars, pct, cls, sensorVars>>

\* the dashboard's edge.alerts subscription callback and processAlert
DashOnAlert(m) ==
    /\ dAlertsReceived' = dAlertsReceived + 1
    /\ LET a == UnmarshalAlert(m) IN
         IF a.err
         THEN UNCHANGED <<TotalAlerts, AlertsByType, RecentAlerts>>
         ELSE /\ TotalAlerts' = TotalAlerts + 1
              /\ AlertsByType' = AddEdge(AlertsByType, a.type, 1)
              /\ RecentAlerts' = RecentPush(RecentAlerts, AlertDisplay(a, now), maxAlerts)
    /\ UNCHANGED <<dMaxReadings, maxAlerts, dTotalReadings, dReadings, dMin, dMax,
                   dEdgeNodes, ActiveEdgeNodes, dLatencies, RecentReadings,
                   LatencyHistory, dStats, dReceived, dSnapshots, dIngested>>
    /\ UNCHANGED <<edgeVars, cloudVars, reportVars, pct, cls, sensorVars>>

\* getStats, under d.mu.Lock(); StdDev is kept squared
DashGetStats ==
    /\ dSnapshots' = dSnapshots + 1
    /\ LET n == Len(dReadings)
           m == IF n > 0 THEN Ratio(SumSeq(dReadings), n) ELSE Ratio(0, 1)
           sd == IF n > 1 THEN Ratio(Variance(dReadings, m), n * n * n) ELSE Ratio(0, 1)
           k == Len(dLatencies)
           avg == IF k > 0 THEN SumSeq(dLatencies) \div k ELSE 0
           hist == IF k > 0 THEN PushHistory(LatencyHistory, avg) ELSE LatencyHistory
           sorted == ExchangeSort(dLatencies)
       IN  /\ LatencyHistory' = hist
           /\ dStats' =
                [Mean |-> m, StdDev |-> sd, Min |-> dMin, Max |-> dMax,
                 TotalReadings |-> dTotalReadings, TotalAlerts |-> TotalAlerts,
                 ActiveEdgeNodes |-> ActiveEdgeNodes,
                 AvgLatency |-> IF k > 0 THEN DurationMs(avg) ELSE NoDuration,
                 LatencyP95 |-> IF k > 0 THEN DurationMs(sorted[PercentileIndex(k, 95) + 1])
                                ELSE NoDuration,
                 LatencyP99 |-> IF k > 0 THEN DurationMs(sorted[PercentileIndex(k, 99) + 1])
                                ELSE NoDuration,
                 LatencyHistory |-> hist]
    /\ UNCHANGED <<dMaxReadings, maxAlerts, dTotalReadings, dReadings, dMin, dMax,
                   dEdgeNodes, ActiveEdgeNodes, dLatencies, RecentReadings, TotalAlerts,
                   AlertsByType, RecentAlerts, dReceived, dAlertsReceived, dIngested>>
    /\ UNCHANGED <<edgeVars, cloudVars, reportVars, pct, cls, sensorVars>>

(* --------------- cloud: report, alerts and the RWMutex ----------------- *)
\* stats.alerts keeps the last 1000
maxCloudAlerts == 1000
\* mutant: past 1000 alerts the newest is dropped
PushAlertDropNewest(l, a) ==
    LET b == Append(l, a) IN IF Len(b) > maxCloudAlerts THEN SubSeq(b, 1, maxCloudAlerts) ELSE b

\* stats.alerts = append(stats.alerts, alert); drop the oldest past 1000
PushAlert(l, a) ==
    LET b == Append(l, a) IN IF Len(b) > maxCloudAlerts THEN Tail(b) ELSE b

\* mutant: the sort works on the caller's slice
CallerSliceAliased(l, sorted) == sorted

\* what the caller's slice holds after calculatePercentile sorted `sorted`,
\* which is a separate allocation (make + copy)
CallerSlice(l, sorted) == l

\* calculatePercentile(latencies, p): the result, and the argument afterwards
calculatePercentile(l, p) ==
    IF Len(l) = 0 THEN [result |-> 0, after |-> l]
    ELSE LET sorted == ExchangeSort(l) IN
         [result |-> sorted[PercentileIndex(Len(l), p) + 1],
          after |-> CallerSlice(l, sorted)]

\* sync.RWMutex: Lock waits for the writer and every reader to leave
CanLock(w, rs) == w = "none" /\ rs = {}
\* mutant: a reader does not wait for the writer
CanRLockAlways(w) == TRUE

\* sync.RWMutex: RLock waits for the writer to leave
CanRLock(w) == w = "none"

\* a FilteredReading stamped at the start of the clock
EarlyMsg(x, e) ==
    Object([sensor_id |-> Str("sensor-07"), value |-> Num(x), timestamp |-> Num(0),
            edge_id |-> Str(e)])
\* messages on edge.filtered in the report model
ReportMsgs == {EarlyMsg(10, "edge-1"), FilteredMsg(20, "edge-1"), OddAggregate, Garbage}

\* the edge.filtered callback up to stats.mu.Lock(): decode, pick the branch,
\* and (processFilteredReading) take the latency from the clock
CloudReceive(m) ==
    /\ ipc = "idle"
    /\ cloudReceived' = cloudReceived + 1
    /\ LET f == UnmarshalFilteredReading(m) IN
         IF f.err
         THEN IF ~UnmarshalMap(m).err
              THEN /\ cur' = [kind |-> "aggregate", msg |-> m, latency |-> 0]
                   /\ ipc' = "lock"
              ELSE UNCHANGED <<cur, ipc>>
         ELSE /\ cur' = [kind |-> "reading", msg |-> m,
                         latency |-> Latency(now, f.Timestamp)]
              /\ ipc' = "lock"
    /\ UNCHANGED <<maxReadings, now, readings, readingsCap, edgeNodes, totalReadings,
                   gSum, gMin, gMax, latencies, ingested>>
    /\ UNCHANGED <<alerts, alertsReceived, rwWriter, rwReaders, rpc, obs, reportsStarted>>
    /\ UNCHANGED <<edgeVars, dashVars, pct, cls, sensorVars>>

\* stats.mu.Lock() in processFilteredReading and processAggregate
CloudLock ==
    /\ ipc = "lock"
    /\ CanLock(rwWriter, rwReaders)
    /\ rwWriter' = "ingest"
    /\ ipc' = IF cur.kind = "reading" THEN "totals" ELSE "aggregate"
    /\ UNCHANGED <<alerts, alertsReceived, rwReaders, cur, rpc, obs, reportsStarted>>
    /\ UNCHANGED <<edgeVars, cloudVars, dashVars, pct, cls, sensorVars>>

\* processFilteredReading: totalReadings, sum, min, max
CloudTotals ==
    /\ ipc = "totals"
    /\ LET r == UnmarshalFilteredReading(cur.msg) IN
         /\ totalReadings' = totalReadings + 1
         /\ gSum' = gSum + r.Value
         /\ gMin' = IF ValueLt(r.Value, gMin) THEN Fin(r.Value) ELSE gMin
         /\ gMax' = IF ValueGt(r.Value, gMax) THEN Fin(r.Value) ELSE gMax
    /\ ipc' = "window"
    /\ UNCHANGED <<maxReadings, now, readings, readingsCap, edgeNodes, latencies,
                   cloudReceived, ingested>>
    /\ UNCHANGED <<alerts, alertsReceived, rwWriter, rwReaders, cur, rpc, obs,
                   reportsStarted>>
    /\ UNCHANGED <<edgeVars, dashVars, pct, cls, sensorVars>>

\* processFilteredReading: the window, the edge node, the latency, and the
\* deferred Unlock
CloudWindow ==
    /\ ipc = "window"
    /\ LET r == UnmarshalFilteredReading(cur.msg)
           a == AppendReading(readings, readingsCap, r.Value)
       IN  /\ readings' = a.r /\ readingsCap' = a.cap
           /\ edgeNodes' = AddEdge(edgeNodes, r.EdgeID, 1)
           /\ latencies' = PushLatency(latencies, cur.latency)
           /\ ingested' = Append(ingested, r.Value)
    /\ rwWriter' = "none"
    /\ ipc' = "idle"
    /\ UNCHANGED <<maxReadings, now, totalReadings, gSum, gMin, gMax, cloudReceived>>
    /\ UNCHANGED <<alerts, alertsReceived, rwReaders, cur, rpc, obs, reportsStarted>>
    /\ UNCHANGED <<edgeVars, dashVars, pct, cls, sensorVars>>

\* processAggregate under the lock, to the deferred Unlock
CloudAggregate ==
    /\ ipc = "aggregate"
    /\ ProcessAggregate(UnmarshalMap(cur.msg).agg)
    /\ rwWriter' = "none"
    /\ ipc' = "idle"
    /\ UNCHANGED <<maxReadings, now, cloudReceived>>
    /\ UNCHANGED <<alerts, alertsReceived, rwReaders, cur, rpc, obs, reportsStarted>>
    /\ UNCHANGED <<edgeVars, dashVars, pct, cls, sensorVars>>

\* the edge.alerts callback and processAlert (Lock to deferred Unlock)
CloudOnAlert(m) ==
    /\ alertsReceived' = alertsReceived + 1
    /\ LET a == UnmarshalAlert(m) IN
         IF a.err THEN UNCHANGED alerts
         ELSE /\ CanLock(rwWriter, rwReaders)
              /\ alerts' = PushAlert(alerts, a)
    /\ UNCHANGED <<rwWriter, rwReaders, ipc, cur, rpc, obs, reportsStarted>>
    /\ UNCHANGED <<edgeVars, cloudVars, dashVars, pct, cls, sensorVars>>

\* s.mu.RLock() in report() and in the /stats handler
ReportRLock(r) ==
    /\ rpc[r] = "idle"
    /\ CanRLock(rwWriter)
    /\ rwReaders' = rwReaders \cup {r}
    /\ rpc' = [rpc EXCEPT ![r] = "mean"]
    /\ obs' = [obs EXCEPT ![r] = NoObs]
    /\ reportsStarted' = reportsStarted + 1
    /\ UNCHANGED <<alerts, alertsReceived, rwWriter, ipc, cur>>
    /\ UNCHANGED <<edgeVars, cloudVars, dashVars, pct, cls, sensorVars>>

\* report(): "No readings received yet" and return, or
\* mean := s.sum / float64(s.totalReadings); the /stats handler: mean 0.0
\* unless TotalReadings > 0
ReportMean(r) ==
    /\ rpc[r] = "mean"
    /\ IF r = "report" /\ totalReadings = 0
       THEN /\ obs' = [obs EXCEPT ![r] = [NoObs EXCEPT !.done = TRUE, !.empty = TRUE]]
            /\ rpc' = [rpc EXCEPT ![r] = "unlock"]
       ELSE /\ obs' = [obs EXCEPT ![r] =
                         [@ EXCEPT !.total = totalReadings,
                                   !.mean = IF totalReadings > 0
                                            THEN Ratio(gSum, totalReadings)
                                            ELSE Ratio(0, 1)]]
            /\ rpc' = [rpc EXCEPT ![r] = "window"]
    /\ UNCHANGED <<alerts, alertsReceived, rwWriter, rwReaders, ipc, cur, reportsStarted>>
    /\ UNCHANGED <<edgeVars, cloudVars, dashVars, pct, cls, sensorVars>>

\* the rest of report() (variance over s.readings, stdDev, percentiles,
\* average latency, the log lines) and of the /stats handler (variance,
\* stdDev, the encoded stats); var is the sum of squares times mean.den^2, and
\* stdDev is sqrt(var / mean.den^2 / n), 0 in the handler when n = 0
ReportWindow(r) ==
    /\ rpc[r] = "window"
    /\ LET p95 == calculatePercentile(latencies, 95)
           p99 == calculatePercentile(p95.after, 99)
           k == Len(latencies)
       IN  /\ obs' = [obs EXCEPT ![r] =
                        [@ EXCEPT !.done = TRUE,
                                  !.var = Variance(readings, obs[r].mean),
                                  !.n = Len(readings),
                                  !.min = gMin, !.max = gMax,
                                  !.p95 = IF r = "report" THEN p95.result ELSE 0,
                                  !.p99 = IF r = "report" THEN p99.result ELSE 0,
                                  !.avgLatency = IF r = "report" /\ k > 0
                                                 THEN Ratio(SumSeq(latencies), k)
                                                 ELSE Ratio(0, 1),
                                  !.alerts = Len(alerts),
                                  !.edges = Cardinality(DOMAIN edgeNodes)]]
           /\ latencies' = IF r = "report" THEN p99.after ELSE latencies
    /\ rpc' = [rpc EXCEPT ![r] = "unlock"]
    /\ UNCHANGED <<maxReadings, now, readings, readingsCap, edgeNodes, totalReadings,
                   gSum, gMin, gMax, cloudReceived, ingested>>
    /\ UNCHANGED <<alerts, alertsReceived, rwWriter, rwReaders, ipc, cur, reportsStarted>>
    /\ UNCHANGED <<edgeVars, dashVars, pct, cls, sensorVars>>

\* stdDev := math.Sqrt(variance / float64(len(s.readings))), squared, from
\* what a reader computed; the /stats handler gives 0.0 for an empty window
StdDevSquared(o) ==
    IF o.n = 0 THEN Ratio(0, 1) ELSE Ratio(o.var, o.mean.den * o.mean.den * o.n)

\* the deferred s.mu.RUnlock()
ReportRUnlock(r) ==
    /\ rpc[r] = "unlock"
    /\ rwReaders' = rwReaders \ {r}
    /\ rpc' = [rpc EXCEPT ![r] = "idle"]
    /\ UNCHANGED <<alerts, alertsReceived, rwWriter, ipc, cur, obs, reportsStarted>>
    /\ UNCHANGED <<edgeVars, cloudVars, dashVars, pct, cls, sensorVars>>

\* messages, report runs, getStats calls and clock ticks so far
Activity ==
    cloudReceived + alertsReceived + reportsStarted + dReceived + dAlertsReceived
        + dSnapshots + now

\* the dashboard after one reading (10, stamped 1 s, taken at clock 0) and 59
\* getStats calls; the counters of the history start from here
InitDashWarm ==
    /\ dMaxReadings \in 1..MaxCap
    /\ maxAlerts \in 1..MaxDashAlerts
    /\ dTotalReadings = 1 /\ dReadings = <<10>>
    /\ dMin = 10 /\ dMax = 10
    /\ dEdgeNodes = ("edge-1" :> 1) /\ ActiveEdgeNodes = 1
    /\ dLatencies = <<0>>
    /\ RecentReadings =
         <<ReadingDisplay(UnmarshalFilteredReading(FilteredMsg(10, "edge-1")), 0)>>
    /\ TotalAlerts = 0 /\ AlertsByType = <<>> /\ RecentAlerts = <<>>
    /\ LatencyHistory = [i \in 1..(historyCap - 1) |-> 0]
    /\ dStats = [Mean |-> Ratio(10, 1), StdDev |-> Ratio(0, 1), Min |-> 10, Max |-> 10,
                 TotalReadings |-> 1, TotalAlerts |-> 0, ActiveEdgeNodes |-> 1,
                 AvgLatency |-> DurationMs(0), LatencyP95 |-> DurationMs(0),
                 LatencyP99 |-> DurationMs(0),
                 LatencyHistory |-> [i \in 1..(historyCap - 1) |-> 0]]
    /\ dReceived = 0 /\ dAlertsReceived = 0 /\ dSnapshots = 0 /\ dIngested = <<10>>

NextReport ==
    \/ Activity < MaxActivity /\ \E m \in ReportMsgs : CloudReceive(m)
    \/ CloudLock
    \/ CloudTotals
    \/ CloudWindow
    \/ CloudAggregate
    \/ Activity < MaxActivity /\ \E m \in AlertInputs : CloudOnAlert(m)
    \/ Activity < MaxActivity /\ \E r \in Readers : ReportRLock(r)
    \/ \E r \in Readers : ReportMean(r)
    \/ \E r \in Readers : ReportWindow(r)
    \/ \E r \in Readers : ReportRUnlock(r)
    \/ Activity < MaxActivity /\ \E m \in DashMsgs : DashOnFiltered(m)
    \/ Activity < MaxActivity /\ \E m \in AlertInputs : DashOnAlert(m)
    \/ Activity < MaxActivity /\ DashGetStats
    \/ Activity < MaxActivity /\ Tick

\* cloud and dashboard, started with the same -max-readings; the dashboard
\* either as constructed or long in use
InitReportModel ==
    /\ InitCloud /\ InitReport
    /\ (InitDash \/ InitDashWarm)
    /\ dMaxReadings = maxReadings /\ maxAlerts = MaxDashAlerts
    /\ EdgeIdle /\ pct = NoPct /\ cls = NoCls /\ InitSensor
SpecReport == InitReportModel /\ [][NextReport]_vars

(* ------------------ cloud and dashboard, long running ------------------ *)
\* the i-th alert the cloud took before the model starts
WarmAlert(i) ==
    [err |-> FALSE, sensor_id |-> "sensor-07", value |-> 100 + i, timestamp |-> 1,
     edge_id |-> "edge-1", type |-> "critical",
     message |-> "Critical value detected (Spike)"]

\* the cloud (-max-readings 1) after 9999 readings of value 10 from edge-1,
\* the i-th with a latency of i seconds, and 999 alerts; the dashboard
\* (-max-readings 1) after 999 such readings, the i-th with a latency of i ms,
\* no alert and no getStats call yet. The clock and the counters of the
\* history start from here.
InitWarm ==
    /\ maxReadings = 1 /\ now = 0
    /\ readings = <<10>> /\ readingsCap = 1
    /\ edgeNodes = ("edge-1" :> (maxLatencies - 1))
    /\ totalReadings = maxLatencies - 1 /\ gSum = 10 * (maxLatencies - 1)
    /\ gMin = Fin(10) /\ gMax = Fin(10)
    /\ latencies = [i \in 1..(maxLatencies - 1) |-> i]
    /\ cloudReceived = 0 /\ ingested = [i \in 1..(maxLatencies - 1) |-> 10]
    /\ alerts = [i \in 1..(maxCloudAlerts - 1) |-> WarmAlert(i)]
    /\ alertsReceived = 0
    /\ rwWriter = "none" /\ rwReaders = {}
    /\ ipc = "idle" /\ cur = NoCur
    /\ rpc = [r \in Readers |-> "idle"] /\ obs = [r \in Readers |-> NoObs]
    /\ reportsStarted = 0
    /\ dMaxReadings = 1
    /\ maxAlerts \in 1..MaxDashAlerts
    /\ dTotalReadings = dashLatencyCap - 1 /\ dReadings = <<10>>
    /\ dMin = 10 /\ dMax = 10
    /\ dEdgeNodes = ("edge-1" :> (dashLatencyCap - 1)) /\ ActiveEdgeNodes = 1
    /\ dLatencies = [i \in 1..(dashLatencyCap - 1) |-> i]
    /\ RecentReadings =
         <<ReadingDisplay(UnmarshalFilteredReading(FilteredMsg(10, "edge-1")), 0)>>
    /\ TotalAlerts = 0 /\ AlertsByType = <<>> /\ RecentAlerts = <<>>
    /\ LatencyHistory = <<>> /\ dStats = NoStats
    /\ dReceived = 0 /\ dAlertsReceived = 0 /\ dSnapshots = 0
    /\ dIngested = [i \in 1..(dashLatencyCap - 1) |-> 10]
    /\ EdgeIdle /\ pct = NoPct /\ cls = NoCls /\ InitSensor

NextWarm ==
    \/ Activity < MaxWarmMsgs /\ OnFiltered(FilteredMsg(10, "edge-1"))
    \/ Activity < MaxWarmMsgs /\ \E m \in AlertMsgs : CloudOnAlert(m)
    \/ Activity < MaxWarmMsgs /\ DashOnFiltered(FilteredMsg(10, "edge-1"))
    \/ Activity < MaxWarmMsgs /\ \E m \in AlertMsgs : DashOnAlert(m)
    \/ Activity < MaxWarmMsgs /\ Tick

SpecWarm == InitWarm /\ [][NextWarm]_vars

(* ------------------- calculatePercentile on its own -------------------- *)
\* latencies in seconds; the cloud stores negative ones as well
PctValues == {-1, 0, 2}
RECURSIVE SeqsUpTo(_, _)
SeqsUpTo(S, n) ==
    IF n = 0 THEN {<<>>}
    ELSE LET shorter == SeqsUpTo(S, n - 1) IN
         shorter \cup {Append(q, x) : q \in shorter, x \in S}
\* 1000, 990, ..., 10: a hundred latencies, newest smallest
HundredLatencies == [i \in 1..100 |-> (101 - i) * 10]
PctBuffers == SeqsUpTo(PctValues, MaxPctLen) \cup {HundredLatencies}
\* report() asks for 95 and 99
PctRanks == {0, 50, 95, 99, 100}

InitPercentile ==
    /\ pct \in {[latencies |-> l, p |-> p, called |-> FALSE, result |-> 0, after |-> <<>>] :
                  l \in PctBuffers, p \in PctRanks}
    /\ InitCloud /\ maxReadings = 1 /\ InitReport /\ DashIdle /\ EdgeIdle
    /\ cls = NoCls /\ InitSensor

\* one call of calculatePercentile(latencies, p)
CallPercentile ==
    /\ ~pct.called
    /\ LET c == calculatePercentile(pct.latencies, pct.p) IN
         pct' = [pct EXCEPT !.called = TRUE, !.result = c.result, !.after = c.after]
    /\ UNCHANGED <<edgeVars, cloudVars, reportVars, dashVars, cls, sensorVars>>

NextPercentile == CallPercentile
SpecPercentile == InitPercentile /\ [][NextPercentile]_vars

(* ------------------- edge: the /metrics handler ------------------------- *)
\* mean := 0.0; if globalStats.Count > 0 { mean = Sum / float64(Count) }
MetricsMean(c, t) == IF c > 0 THEN Ratio(t, c) ELSE Ratio(0, 1)

\* json.NewEncoder(w).Encode(display): DisplayStats embeds *EdgeStats, whose
\* Min and Max are encoded as JSON numbers; encoding/json has no number for
\* +Inf or -Inf, Encode returns an UnsupportedValueError before it writes
\* anything, and the handler drops that error
EncodeOK(lo, hi) == lo.inf = 0 /\ hi.inf = 0

\* the /metrics handler of the tiered build, from RLock to the deferred
\* RUnlock; `mean` is the handler's local, `encoded` whether a body was written
EdgeMetrics ==
    /\ build = "tiered"
    /\ mu = "free"
    /\ metrics' = [served |-> TRUE, count |-> count, mean |-> MetricsMean(count, sum),
                   encoded |-> EncodeOK(min, max)]
    /\ UNCHANGED <<build, windowSize, noiseFilter, significand, useJetStream, count, sum, min, max, windowValues, mu,
                   pc, reading, mean, lenSeen, variance, rejected, forwarded, alerted, dpc,
                   nFiltered, lastFiltered, nAlerts, lastAlert, nAgg, lastAgg,
                   received, pre, winBefore, pubBefore, pushed, lastDrain, pubErr,
                   nIngested, nAggregated, acked>>
    /\ UNCHANGED otherThanEdge

\* the steps of the tiered build, which has no noise filter
NextMetrics ==
    \/ \E m \in RawMsgs : Receive(m)
    \/ IngestLock
    \/ IngestUpdate
    \/ Forward
    \/ CheckAlert
    \/ DrainLock
    \/ DrainBody
    \/ EdgeMetrics

\* the tiered edge as constructed; the cloud stays as constructed
InitMetrics ==
    /\ InitEdge /\ build = "tiered" /\ noiseFilter = Ratio(1, 2)
    /\ significand = float64Bits /\ ~useJetStream
    /\ InitCloud /\ maxReadings = 1
    /\ InitReport /\ DashIdle
    /\ pct = NoPct /\ cls = NoCls /\ InitSensor
SpecMetrics == InitMetrics /\ [][NextMetrics]_vars

(* ------------------ edge: the JetStream consumer loop ------------------- *)
\* for { msg, err := msgs.Next(); processMessage(msg.Data(), ...); msg.Ack() }
\* beside the aggregation timer
NextJetStream ==
    \/ \E m \in RawMsgs : Receive(m)
    \/ IngestLock
    \/ IngestUpdate
    \/ ReadLen
    \/ RangeWindow
    \/ Filter
    \/ Forward
    \/ CheckAlert
    \/ Ack
    \/ DrainLock
    \/ DrainBody

\* an edge started with -jetstream; the cloud stays as constructed
InitJetStream ==
    /\ InitEdge /\ significand = float64Bits /\ useJetStream
    /\ InitCloud /\ maxReadings = 1
    /\ InitReport /\ DashIdle
    /\ pct = NoPct /\ cls = NoCls /\ InitSensor
SpecJetStream == InitJetStream /\ [][NextJetStream]_vars

(* ------------- edge: the totals in rounded arithmetic ------------------- *)
\* readings that need every bit of the reduced significand: 2^p, and the two
\* largest floats below 2^(p+1); in float64 these are readings such as 49.7
FloatValues == {2 ^ MantissaBits, 2 ^ (MantissaBits + 1) - 4, 2 ^ (MantissaBits + 1) - 2}
FloatMsgs == {SensorMsg(v) : v \in FloatValues}

\* the steps of the tiered build; publishAggregate is the same in the static
\* build, whose noise filter is left out here
NextAggregate ==
    \/ \E m \in FloatMsgs : Receive(m)
    \/ IngestLock
    \/ IngestUpdate
    \/ Forward
    \/ CheckAlert
    \/ DrainLock
    \/ DrainBody

\* a tiered edge as constructed, computing at the reduced width
InitAggregate ==
    /\ InitEdge /\ build = "tiered" /\ noiseFilter = Ratio(1, 2)
    /\ significand = MantissaBits /\ ~useJetStream
    /\ InitCloud /\ maxReadings = 1
    /\ InitReport /\ DashIdle
    /\ pct = NoPct /\ cls = NoCls /\ InitSensor
SpecAggregate == InitAggregate /\ [][NextAggregate]_vars

(* ----------------- edge and cloud taking messages together ------------- *)
\* messages delivered so far on sensors.readings, edge.alerts and edge.filtered
Intake == received + alertsReceived + cloudReceived
IntakeMsgs == {FilteredMsg(20, "edge-1"), OddAggregate, Garbage}

NextIntake ==
    \/ Intake < MaxIntake /\ \E m \in RawMsgs : Receive(m)
    \/ IngestLock
    \/ IngestUpdate
    \/ ReadLen
    \/ RangeWindow
    \/ Filter
    \/ Forward
    \/ CheckAlert
    \/ DrainLock
    \/ DrainBody
    \/ Intake < MaxIntake /\ \E m \in AlertInputs : CloudOnAlert(m)
    \/ Intake < MaxIntake /\ \E m \in IntakeMsgs : OnFiltered(m)

\* an edge with a window of two readings and a cloud, both as constructed
InitIntake ==
    /\ InitEdge /\ windowSize = 2 /\ noiseFilter = Ratio(1, 2)
    /\ significand = float64Bits /\ ~useJetStream
    /\ InitCloud /\ maxReadings = 1
    /\ InitReport /\ DashIdle
    /\ pct = NoPct /\ cls = NoCls /\ InitSensor
SpecIntake == InitIntake /\ [][NextIntake]_vars

(* ------------------ the alert classification on its own ---------------- *)
\* readings from -MaxBelowZero to MaxClassifyValue
ClassifyValues == (0 - MaxBelowZero)..MaxClassifyValue

InitClassify ==
    /\ cls \in {[build |-> b, value |-> v, called |-> FALSE, type |-> "", message |-> ""] :
                  b \in Builds, v \in ClassifyValues}
    /\ InitCloud /\ maxReadings = 1 /\ InitReport /\ DashIdle /\ EdgeIdle
    /\ pct = NoPct /\ InitSensor

\* "Check for threshold violations" for one reading: the Type and Message of
\* the alert, "" when none is built
CallClassify ==
    /\ ~cls.called
    /\ LET c == Classify(cls.build, cls.value) IN
         cls' = [cls EXCEPT !.called = TRUE, !.type = c.type, !.message = c.message]
    /\ UNCHANGED <<edgeVars, cloudVars, reportVars, dashVars, pct, sensorVars>>

NextClassify == CallClassify
SpecClassify == InitClassify /\ [][NextClassify]_vars

(* ------------------------ sensor: generateValue ------------------------- *)
\* Offsets, steps, spikes and noise are whole numbers here: rng.Float64()*5.0
\* lies in [0, 5) and is drawn from 0..4, rng.Float64()*3.0 from 0..2.
driftStepLimit == 5
recoveryStepLimit == 3
\* simState.targetOffset = -35.0 or 35.0
driftMagnitude == 35
\* simState.driftDuration = rng.Intn(10) + 10
driftTicksSpan == 10
driftTicksMin == 10
\* the -base flag's default
baseValue == 50
\* spike = 60.0 + rng.Float64()*20.0 or its negative; 0 when none is drawn
spikeMin == 60
spikeSpan == 20
Spikes == {0, spikeMin, 1 - spikeMin - spikeSpan}
\* rng.NormFloat64()*noise
Noises == {0, 2}

SimState ==
    [isDrifting |-> isDrifting, driftDuration |-> driftDuration,
     currentOffset |-> currentOffset, targetOffset |-> targetOffset]

\* mutant: the step is taken without the clamp
ApproachNoClamp(off, tgt, step) ==
    IF off < tgt THEN off + step ELSE IF off > tgt THEN off - step ELSE off

\* move the offset off towards tgt by step and stop at tgt: the approach phase (tgt is
\* targetOffset) and the recovery phase (tgt is 0)
Approach(off, tgt, step) ==
    IF off < tgt THEN (IF off + step > tgt THEN tgt ELSE off + step)
    ELSE IF off > tgt THEN (IF off - step < tgt THEN tgt ELSE off - step)
    ELSE off

\* mutant: isDrifting is cleared one tick late
DriftTickLate(st, step) ==
    [isDrifting |-> ~(st.driftDuration - 1 < 0),
     driftDuration |-> st.driftDuration - 1,
     currentOffset |-> Approach(st.currentOffset, st.targetOffset, step),
     targetOffset |-> st.targetOffset]

\* "1. Manage Drift State", the isDrifting branch, with the step drawn
DriftTick(st, step) ==
    [isDrifting |-> ~(st.driftDuration - 1 <= 0),
     driftDuration |-> st.driftDuration - 1,
     currentOffset |-> Approach(st.currentOffset, st.targetOffset, step),
     targetOffset |-> st.targetOffset]

\* the recovery phase, with the step drawn
RecoveryTick(st, step) ==
    [st EXCEPT !.currentOffset = IF st.currentOffset # 0
                                 THEN Approach(st.currentOffset, 0, step)
                                 ELSE st.currentOffset]

\* "2. Start new Drift?" taken: duration and target drawn
StartDrift(st, d, tgt) ==
    [st EXCEPT !.isDrifting = TRUE, !.driftDuration = d, !.targetOffset = tgt]

\* the states parts 1 and 2 of generateValue can leave, over every draw of
\* the generator; a drift starts only from offset 0
DriftNext(st) ==
    IF st.isDrifting
    THEN {DriftTick(st, step) : step \in 0..(driftStepLimit - 1)}
    ELSE LET rec == {RecoveryTick(st, step) : step \in 0..(recoveryStepLimit - 1)} IN
         rec \cup {StartDrift(r, d, tgt) :
                     r \in {q \in rec : q.currentOffset = 0},
                     d \in driftTicksMin..(driftTicksMin + driftTicksSpan - 1),
                     tgt \in {0 - driftMagnitude, driftMagnitude}}

\* mutant: the spike stays in the offset
AfterSpikeRetained(st, spike) == [st EXCEPT !.currentOffset = @ + spike]

\* "3. Spike Anomaly": spike is a local of the call, simState is not written
AfterSpike(st, spike) == st

\* return base + simState.currentOffset + spike + rng.NormFloat64()*noise
ReturnValue(st, spike, noise) == baseValue + st.currentOffset + spike + noise

\* the episode's starting duration and its ticks so far
EpisodeNext(st, nxt) ==
    IF st.isDrifting THEN [episode EXCEPT !.ticks = @ + 1]
    ELSE IF nxt.isDrifting THEN [d |-> nxt.driftDuration, ticks |-> 0]
    ELSE episode

\* one tick of the sensor's loop: generateValue
GenerateValue ==
    /\ \E nxt \in DriftNext(SimState), spike \in Spikes, noise \in Noises :
         LET st == AfterSpike(nxt, spike) IN
         /\ isDrifting' = st.isDrifting
         /\ driftDuration' = st.driftDuration
         /\ currentOffset' = st.currentOffset
         /\ targetOffset' = st.targetOffset
         /\ generated' = [called |-> TRUE, spike |-> spike, noise |-> noise,
                          value |-> ReturnValue(nxt, spike, noise)]
         /\ episode' = EpisodeNext(SimState, nxt)
    /\ UNCHANGED <<edgeVars, cloudVars, reportVars, dashVars, pct, cls>>

NextSensor == GenerateValue

\* the sensor alone; edge, cloud and dashboard stay as constructed
InitSensorAlone ==
    /\ InitSensor
    /\ InitCloud /\ maxReadings = 1 /\ InitReport /\ DashIdle /\ EdgeIdle
    /\ pct = NoPct /\ cls = NoCls
\* the ticker fires for as long as the sensor runs
SpecSensor == InitSensorAlone /\ [][NextSensor]_vars /\ WF_vars(GenerateValue)

(* ============================== claims ================================= *)
\* the current reading's processMessage call has returned
Returned == pc = "recv" /\ ~reading.err
\* the static build's noise filter has decided on the current reading
Decided == build = "static" /\ ~reading.err /\ pc \in {"recv", "forward", "alert"}
\* this step is the body of publishAggregate
DrainStep == dpc = "body" /\ dpc' = "tick"
\* this step is processMessage's locked update
UpdateStep == pc = "update" /\ pc' # "update"

\* C1: receiving an AggregateSummary on edge.filtered changes none of
\* totalReadings, sum, min, max, the readings window and the latency buffer.
C1_AggregateNotIngested ==
    [][\A m \in AggregateMsgs :
          OnFiltered(m) => UNCHANGED <<totalReadings, gSum, gMin, gMax, readings, latencies>>]_vars

\* C2: a reading rejected by the noise filter is not forwarded, and (no drain
\* having run since) count, sum, min and max are what they were before it.
C2_RejectedNotCounted ==
    (Returned /\ rejected) => (~forwarded /\ (pushed # <<>> => Totals = pre))

\* C3: the cloud's readings window never holds more than max-readings values,
\* and holds exactly the last max-readings values ingested, in order.
C3_CloudWindowBounded ==
    /\ Len(readings) <= maxReadings
    /\ readings = LastN(ingested, maxReadings)

\* C4: while processMessage is between its reads of the window (the length
\* test, the range loop, the length in the division), no step changes the
\* window: the drain cannot clear it under the reader.
ReadingWindow == pc \in {"len", "range"} \/ (pc = "filter" /\ HasHistory(lenSeen))
C4_WindowReadUnderLock ==
    [][ReadingWindow => windowValues' = windowValues]_vars

\* the active policy is violated by value x (stated from the policies' bounds)
ViolatesPolicy(b, x) ==
    IF b = "tiered" THEN x < 0 \/ x > 100 \/ x < 40 \/ x > 60
    ELSE x < 0 \/ x > 200
AlertsForReading == nAlerts - pubBefore.alerts

\* C5 as claimed: every well-formed reading that violates the policy causes
\* exactly one Alert, every other reading none.
C5_AlertPerViolation ==
    Returned => AlertsForReading = (IF ViolatesPolicy(build, reading.Value) THEN 1 ELSE 0)

\* C5 amended: a reading causes exactly one Alert if it violates the policy
\* and was not rejected by the noise filter, and none otherwise; the Alert
\* carries the reading's value.
C5_AlertPerForwardedViolation ==
    Returned =>
        /\ AlertsForReading =
             (IF ViolatesPolicy(build, reading.Value) /\ ~rejected THEN 1 ELSE 0)
        /\ AlertsForReading = 1 =>
             lastAlert.value = reading.Value /\ lastAlert.type # ""
C5_Witness ==
    /\ Returned /\ build = "static" /\ forwarded /\ reading.Value = 205
    /\ nAlerts = pubBefore.alerts + 1

\* the noise filter as claimed: over window w, stddev > 0 and
\* |x - mean(w)| > k * stddev(w), squared and cleared of denominators
WindowReject(x, w, k) ==
    LET m == Ratio(SumSeq(w), Len(w)) IN
    /\ Len(w) > 0
    /\ Variance(w, m) > 0
    /\ k.den * k.den * (x * m.den - m.num) * (x * m.den - m.num) * Len(w)
         > k.num * k.num * Variance(w, m)

\* C6: the filter rejects exactly when the window's stddev is > 0 and the
\* value is more than k stddev from the window's mean; the window read either
\* as the one before the reading was pushed or as the one holding it.
C6_RejectIffWindowDeviation ==
    Decided =>
        \/ rejected <=> WindowReject(reading.Value, winBefore, noiseFilter)
        \/ rejected <=> WindowReject(reading.Value,
                                     LastN(Append(winBefore, reading.Value), windowSize),
                                     noiseFilter)

C8_EdgeWindowFifo ==
    /\ Len(windowValues) <= windowSize
    /\ windowValues = LastN(pushed, windowSize)
C8_Witness ==
    /\ windowSize = 2 /\ pushed = <<45, 205, -5>> /\ windowValues = <<205, -5>>

\* C9: a drain that finds no reading ingested since the previous drain
\* publishes nothing and leaves the totals and the window unchanged.
C9_EmptyDrainSilent ==
    [][(DrainStep /\ pushed = <<>>) =>
          /\ nAgg' = nAgg /\ lastAgg' = lastAgg
          /\ Totals' = Totals /\ windowValues' = windowValues]_vars
C9_Witness ==
    lastDrain = "empty" /\ nAgg >= 1 /\ count = 0

\* C10: a drain with count > 0 publishes the count, mean, min and max of the
\* readings ingested since the previous drain and leaves zero totals and an
\* empty window; only the locked update and the drain change the totals.
C10_DrainSummary ==
    [][/\ (DrainStep /\ count > 0) =>
            /\ nAgg' = nAgg + 1
            /\ lastAgg'.count = Len(pushed)
            /\ lastAgg'.mean = Ratio(SumSeq(pushed), Len(pushed))
            /\ lastAgg'.min = MinSeq(pushed)
            /\ lastAgg'.max = MaxSeq(pushed)
            /\ Totals' = ZeroTotals
            /\ windowValues' = <<>>
       /\ Totals' # Totals => (UpdateStep \/ DrainStep)]_vars
C10_Witness ==
    /\ lastDrain = "emitted" /\ count = 0 /\ windowValues = <<>>
    /\ lastAgg.count = 2 /\ lastAgg.min = Fin(-5) /\ lastAgg.max = Fin(205)

\* C11: after the cloud has ingested a non-empty sequence of readings, its
\* count is their number, its sum their sum, its min the smallest and its max
\* the largest of them.
C11_CloudTotals ==
    ingested # <<>> =>
        /\ totalReadings = Len(ingested)
        /\ gSum = SumSeq(ingested)
        /\ LET S == {ingested[i] : i \in DOMAIN ingested} IN
             /\ gMin = Fin(CHOOSE x \in S : \A y \in S : x <= y)
             /\ gMax = Fin(CHOOSE x \in S : \A y \in S : x >= y)
C11_Witness ==
    /\ ingested = <<20, 10, 20>>
    /\ totalReadings = 3 /\ gSum = 50 /\ gMin = Fin(10) /\ gMax = Fin(20)

\* C13: every latency in the cloud's latency buffer is >= 0, also for a
\* reading stamped later than the cloud's clock.
C13_LatencyNonNegative ==
    \A i \in 1..Len(latencies) : latencies[i] >= 0

\* C12: once the dashboard has ingested readings, Min is the smallest and Max
\* the largest value ingested so far (negative values included), and a
\* further reading never raises Min nor lowers Max.
C12_DashMinMax ==
    /\ [](dIngested # <<>> =>
            Fin(dMin) = MinSeq(dIngested) /\ Fin(dMax) = MaxSeq(dIngested))
    /\ [][dIngested # <<>> => (dMin' <= dMin /\ dMax' >= dMax)]_vars

\* v is the element at index k (from 0) of l sorted in ascending order
IsAtSortedIndex(l, k, v) ==
    /\ \E i \in 1..Len(l) : l[i] = v
    /\ Cardinality({i \in 1..Len(l) : l[i] < v}) <= k
    /\ k < Cardinality({i \in 1..Len(l) : l[i] <= v})

\* C14: on a non-empty buffer calculatePercentile returns the element at
\* index min(floor(len * p / 100), len - 1) of the buffer in ascending order.
C14_PercentileByIndex ==
    (pct.called /\ pct.latencies # <<>>) =>
        LET len == Len(pct.latencies)
            k == IF (len * pct.p) \div 100 < len - 1 THEN (len * pct.p) \div 100 ELSE len - 1
        IN  IsAtSortedIndex(pct.latencies, k, pct.result)
C14_Witness ==
    /\ pct.called /\ pct.latencies = HundredLatencies /\ pct.p = 95
    /\ pct.result = 960

\* equality of two fractions
RatEq(a, b) == a.num * b.den = b.num * a.den
\* mean and population variance of the values of a non-empty window
WindowMean(w) == Ratio(SumSeq(w), Len(w))
PopulationVariance(w) ==
    Ratio(Variance(w, WindowMean(w)), Len(w) * Len(w) * Len(w))
\* reader r has finished computing a report and still holds the read lock
Reported(r) == rpc[r] = "unlock" /\ obs[r].done /\ ~obs[r].empty
\* this step is a getStats call
SnapshotStep == dSnapshots' # dSnapshots

\* C15: the mean a cloud report gives is the mean of the values in the
\* readings window, and its stddev is the deviation of those values around
\* that mean, also after more readings than the window's capacity.
C15_ReportFromWindow ==
    \A r \in Readers :
        (Reported(r) /\ readings # <<>>) =>
            /\ RatEq(obs[r].mean, WindowMean(readings))
            /\ RatEq(StdDevSquared(obs[r]), PopulationVariance(readings))

\* C16: the stddev a report gives is 0 for a window of 0 or 1 samples and
\* the population stddev of the window's values otherwise, in the cloud's
\* reports and in the dashboard's getStats.
C16_StdDevOfWindow ==
    /\ [](\A r \in Readers :
            Reported(r) =>
                IF Len(readings) <= 1 THEN StdDevSquared(obs[r]).num = 0
                ELSE RatEq(StdDevSquared(obs[r]), PopulationVariance(readings)))
    /\ [][SnapshotStep =>
            IF Len(dReadings) <= 1 THEN dStats'.StdDev.num = 0
            ELSE RatEq(dStats'.StdDev, PopulationVariance(dReadings))]_vars

\* this step is a step of report() or of the /stats handler
ReaderStep == rpc' # rpc

\* C17: no step of a cloud report changes the totals, the window, the
\* alerts, the per-edge counts or the latency buffer (contents and order);
\* getStats changes only LatencyHistory, which never exceeds 60 points and
\* loses its oldest point first.
C17_SnapshotReadOnly ==
    [][/\ ReaderStep =>
            UNCHANGED <<totalReadings, gSum, gMin, gMax, readings, alerts, edgeNodes,
                        latencies>>
       /\ SnapshotStep =>
            /\ UNCHANGED <<dTotalReadings, dReadings, dMin, dMax, dEdgeNodes,
                           ActiveEdgeNodes, dLatencies, RecentReadings, TotalAlerts,
                           AlertsByType, RecentAlerts>>
            /\ Len(LatencyHistory') <= 60
            /\ LatencyHistory' # LatencyHistory =>
                 LatencyHistory' =
                    LastN(Append(LatencyHistory, LatencyHistory'[Len(LatencyHistory')]), 60)]_vars
C17_Witness ==
    /\ dSnapshots = 2 /\ Len(LatencyHistory) = 60
    /\ Reported("report") /\ latencies = <<-1>> /\ obs["report"].p95 = -1

\* the edge.filtered callback is inside processFilteredReading's locked part
Ingesting == ipc \in {"totals", "window"}
\* reader r is between RLock and RUnlock
Reading(r) == rpc[r] # "idle"

\* C18: a cloud report never overlaps an ingest: while a reader is between
\* RLock and RUnlock no ingest is under way, and what a finished report saw
\* (count, mean, min, max, window length) is the state left by the ingests
\* completed so far.
C18_ReportSeesWholeIngests ==
    /\ ~(rwWriter # "none" /\ rwReaders # {})
    /\ Ingesting => rwWriter = "ingest"
    /\ \A r \in Readers :
         /\ Reading(r) => (r \in rwReaders /\ ~Ingesting)
         /\ Reported(r) =>
              /\ obs[r].total = Len(ingested)
              /\ RatEq(obs[r].mean, Ratio(SumSeq(ingested), Len(ingested)))
              /\ obs[r].min = MinSeq(ingested) /\ obs[r].max = MaxSeq(ingested)
              /\ obs[r].n = Len(readings)
C18_Witness ==
    /\ rwReaders = Readers /\ ipc = "lock"
    /\ Reported("report") /\ obs["report"].total = 1 /\ ingested = <<10>>

\* the log after one more entry: the entry at the end, the oldest gone when
\* that makes more than cap
Appended(before, after, cap) ==
    /\ after # <<>>
    /\ after = LastN(Append(before, after[Len(after)]), cap)
RECURSIVE Reverse(_)
Reverse(q) == IF q = <<>> THEN <<>> ELSE Append(Reverse(Tail(q)), Head(q))

\* C19: the latency buffer never holds more than 10000 latencies in the
\* cloud and 1000 in the dashboard; an ingestion puts the new latency at the
\* end and, past the capacity, drops the oldest.
C19_LatencyBufferCapped ==
    [][/\ Len(latencies') <= 10000
       /\ totalReadings' # totalReadings => Appended(latencies, latencies', 10000)
       /\ Len(dLatencies') <= 1000
       /\ dTotalReadings' # dTotalReadings => Appended(dLatencies, dLatencies', 1000)]_vars
C19_Witness ==
    /\ Len(latencies) = 10000 /\ latencies[1] = 2 /\ totalReadings = 10001
    /\ Len(dLatencies) = 1000 /\ dLatencies[1] = 2 /\ dTotalReadings = 1001

\* C20: the alert log never holds more than 1000 alerts in the cloud and
\* max-alerts in the dashboard; an alert joins as the newest and, when the
\* log is full, the oldest retained alert is the one dropped.
C20_AlertLogCapped ==
    [][/\ Len(alerts') <= 1000
       /\ \A m \in AlertMsgs :
            CloudOnAlert(m) =>
                /\ Appended(alerts, alerts', 1000)
                /\ alerts'[Len(alerts')] = UnmarshalAlert(m)
       /\ Len(RecentAlerts') <= maxAlerts
       /\ TotalAlerts' # TotalAlerts =>
            Appended(Reverse(RecentAlerts), Reverse(RecentAlerts'), maxAlerts)]_vars
C20_Witness ==
    /\ Len(alerts) = 1000 /\ alerts[1] = WarmAlert(2)
    /\ maxAlerts = 1 /\ Len(RecentAlerts) = 1 /\ TotalAlerts = 2
    /\ RecentAlerts[1].type = "warning"

\* the sum of the per-class counters of a map[string]int
RECURSIVE CounterSum(_)
CounterSum(c) ==
    IF DOMAIN c = {} THEN 0
    ELSE LET k == CHOOSE k \in DOMAIN c : TRUE IN
         c[k] + CounterSum([j \in DOMAIN c \ {k} |-> c[j]])
\* the count of class k in a map[string]int: a missing key reads 0
CounterOf(c, k) == IF k \in DOMAIN c THEN c[k] ELSE 0
\* the cloud keeps no counter per class: what it holds per class is the
\* alerts of that class in stats.alerts
LoggedOfClass(l, k) == Cardinality({i \in DOMAIN l : l[i].type = k})
AlertClasses == {"critical", "warning", "threshold"}

\* C21: each ingested alert raises the count of its class by one and no
\* other, in the dashboard and in the cloud, so the per-class counts sum to the
\* number of alerts ingested, whatever the alert log has evicted.
C21_AlertClassCounters ==
    [][\A m \in AlertMsgs :
         LET a == UnmarshalAlert(m) IN
         /\ DashOnAlert(m) =>
              /\ \A k \in AlertClasses :
                   CounterOf(AlertsByType', k) =
                       CounterOf(AlertsByType, k) + (IF k = a.type THEN 1 ELSE 0)
              /\ CounterSum(AlertsByType') = TotalAlerts'
         /\ CloudOnAlert(m) =>
              \A k \in AlertClasses :
                   LoggedOfClass(alerts', k) =
                       LoggedOfClass(alerts, k) + (IF k = a.type THEN 1 ELSE 0)]_vars
\* the dashboard's part of C21 alone
C21_DashClassCounters ==
    [][\A m \in AlertMsgs :
         LET a == UnmarshalAlert(m) IN
         DashOnAlert(m) =>
              /\ \A k \in AlertClasses :
                   CounterOf(AlertsByType', k) =
                       CounterOf(AlertsByType, k) + (IF k = a.type THEN 1 ELSE 0)
              /\ CounterSum(AlertsByType') = TotalAlerts']_vars

\* C22: under the tiered policy a reading outside 0..100 is critical, one
\* inside 0..100 but outside 40..60 is warning, one inside 40..60 raises
\* nothing; none outside 0..100 is ever warning (-1 critical, 45 none, 65
\* warning, 150 critical).
C22_TieredClasses ==
    (cls.called /\ cls.build = "tiered") =>
        LET v == cls.value IN
        /\ (v < 0 \/ v > 100) <=> cls.type = "critical"
        /\ (0 <= v /\ v <= 100 /\ (v < 40 \/ v > 60)) <=> cls.type = "warning"
        /\ (40 <= v /\ v <= 60) <=> cls.type = ""
        /\ v = -1 => cls.type = "critical"
        /\ v = 45 => cls.type = ""
        /\ v = 65 => cls.type = "warning"
        /\ v = 150 => cls.type = "critical"
C22_Witness ==
    cls.called /\ cls.build = "tiered" /\ cls.value = 150 /\ cls.type = "critical"

\* C23: under the static policy a value below min is classified
\* threshold_low, a value above max threshold_high, and a value from min to
\* max raises nothing; the class tells the two alerts apart.
C23_StaticClasses ==
    (cls.called /\ cls.build = "static") =>
        cls.type = (IF cls.value < thresholdMin THEN "threshold_low"
                    ELSE IF cls.value > thresholdMax THEN "threshold_high"
                    ELSE "")
\* what the static build does give: one class, two messages
C23_StaticMessages ==
    (cls.called /\ cls.build = "static") =>
        /\ cls.value < thresholdMin =>
             cls.type = "threshold" /\ cls.message = "Value below minimum threshold"
        /\ cls.value > thresholdMax =>
             cls.type = "threshold" /\ cls.message = "Value above maximum threshold"
        /\ (thresholdMin <= cls.value /\ cls.value <= thresholdMax) => cls.type = ""

\* C24: every well-formed reading the noise filter did not reject has been
\* handed to the transport as exactly one FilteredReading with the reading's
\* sensor id, value and timestamp and this edge's id, however full the window
\* was when it arrived.
C24_AcceptedIsForwarded ==
    (Returned /\ ~rejected) =>
        /\ forwarded
        /\ nFiltered = pubBefore.filtered + 1
        /\ lastFiltered.sensor_id = reading.SensorID
        /\ lastFiltered.value = reading.Value
        /\ lastFiltered.timestamp = reading.Timestamp
        /\ lastFiltered.edge_id = EdgeID
\* the window was full when the reading arrived
C24_Witness ==
    /\ Returned /\ ~rejected /\ forwarded
    /\ windowSize = 2 /\ Len(winBefore) = windowSize
    /\ reading.Value = 65 /\ lastFiltered.value = 65
    /\ nFiltered = pubBefore.filtered + 1

\* this step is the publish of the FilteredReading / of the Alert check
ForwardStep == pc = "forward" /\ pc' # "forward"
AlertStep == pc = "alert" /\ pc' # "alert"

\* C26: a publish that fails changes nothing in what the edge does next: the
\* forward and the alert publish leave count, sum, min, max and the window
\* alone and go on to the next step, a drain that found readings resets the
\* totals and the window, whatever the transport answered; and each message
\* is handed to the transport once, in the step that built it, never again.
C26_SendFailureIgnored ==
    [][/\ ForwardStep =>
            /\ pc' = "alert"
            /\ Totals' = Totals /\ windowValues' = windowValues
       /\ AlertStep =>
            /\ pc' = "recv"
            /\ Totals' = Totals /\ windowValues' = windowValues
       /\ (DrainStep /\ count > 0) =>
            /\ Totals' = ZeroTotals /\ windowValues' = <<>>
            /\ nAgg' = nAgg + 1
       /\ nFiltered' # nFiltered =>
            /\ ForwardStep /\ nFiltered' = nFiltered + 1
            /\ lastFiltered'.value = reading.Value
       /\ nAlerts' # nAlerts =>
            /\ AlertStep /\ nAlerts' = nAlerts + 1
            /\ lastAlert'.value = reading.Value
       /\ nAgg' # nAgg => (DrainStep /\ lastAgg'.count = count)
       /\ pubErr' # pubErr => (ForwardStep \/ AlertStep \/ DrainStep)]_vars
\* the only publish so far was an aggregate, it failed, and the totals are
\* reset
C26_Witness ==
    /\ pubErr /\ nAgg = 1 /\ nFiltered = 0 /\ nAlerts = 0
    /\ lastDrain = "emitted" /\ count = 0 /\ windowValues = <<>>
    /\ lastAgg.count = 1

\* what the edge holds and has published, and where processMessage stands
EdgeState ==
    <<count, sum, min, max, windowValues, mu, pc, nFiltered, lastFiltered, nAlerts,
      lastAlert, nAgg, lastAgg>>
\* what the cloud holds
CloudState ==
    <<alerts, readings, edgeNodes, totalReadings, gSum, gMin, gMax, latencies>>

\* C25: a message that cannot be decoded is skipped: a reading that is no
\* JSON, or whose value is a string, changes nothing in the edge (totals,
\* window, publications) and leaves it waiting for the next message; an alert
\* or a cloud-bound message that is no JSON changes nothing in the cloud.
C25_MalformedSkipped ==
    [][/\ \A m \in {BadSensorMsg, Garbage} :
            Receive(m) => (UNCHANGED EdgeState /\ pc' = "recv")
       /\ CloudOnAlert(Garbage) => UNCHANGED CloudState
       /\ OnFiltered(Garbage) => UNCHANGED CloudState]_vars
\* after a malformed reading and a malformed alert, the reading 45 was
\* forwarded and the alert for 205 logged
C25_Witness ==
    /\ received = 2 /\ Returned /\ reading.Value = 45
    /\ count = 1 /\ nFiltered = 1 /\ lastFiltered.value = 45
    /\ alertsReceived = 2 /\ Len(alerts) = 1 /\ alerts[1].value = 205

\* C27: a query on empty state answers with the neutral value 0: the
\* percentile of no latencies is 0, and the edge's /metrics, asked while the
\* count is 0, answers with mean 0.
C27_EmptyStateQueries ==
    /\ (pct.called /\ pct.latencies = <<>>) => pct.result = 0
    /\ (metrics.served /\ metrics.count = 0) =>
           (metrics.encoded /\ metrics.mean = Ratio(0, 1))
\* the parts of C27 that hold: the percentile of no latencies is 0; the mean
\* /metrics computes for a zero count is 0, and no other count divides by zero
C27_PercentileOfEmpty ==
    (pct.called /\ pct.latencies = <<>>) => pct.result = 0
C27_MetricsMean ==
    metrics.served =>
        /\ metrics.count = 0 => metrics.mean = Ratio(0, 1)
        /\ metrics.count > 0 => metrics.mean.den = metrics.count
\* report() that got past "No readings received yet" divided by a count and
\* a window length above 0, and every reader took 0 for the average of no
\* latencies and (the /stats handler) for the mean of no readings
C27_ReportDivisors ==
    \A r \in Readers :
        (obs[r].done /\ ~obs[r].empty) =>
            /\ r = "report" => (obs[r].total > 0 /\ obs[r].n > 0 /\ obs[r].mean.den > 0)
            /\ obs[r].total = 0 => obs[r].mean = Ratio(0, 1)
            /\ obs[r].avgLatency.den > 0

\* this step is a call of generateValue
TickStep == generated' # generated \/ SimState' # SimState \/ episode' # episode

\* C28: currentOffset always lies between 0 and targetOffset, both included,
\* and so within 35 of 0.
C28_OffsetWithinTarget ==
    /\ targetOffset >= 0 => (0 <= currentOffset /\ currentOffset <= targetOffset)
    /\ targetOffset <= 0 => (targetOffset <= currentOffset /\ currentOffset <= 0)
    /\ currentOffset <= 35 /\ currentOffset >= -35
\* a drift step of 4 from 33 was stopped at the target
C28_Witness ==
    /\ isDrifting /\ targetOffset = 35 /\ currentOffset = 35
    /\ episode.ticks >= 8

\* C29: while isDrifting, a tick lowers driftDuration by exactly 1 and clears
\* isDrifting exactly when it reaches 0; between ticks isDrifting implies
\* driftDuration >= 1; an episode that started with d ticks ends after
\* exactly d ticks; and every episode ends.
C29_DriftEpisodeEnds ==
    /\ [](isDrifting => (driftDuration >= 1 /\ driftDuration = episode.d - episode.ticks))
    /\ [][(isDrifting /\ TickStep) =>
             /\ driftDuration' = driftDuration - 1
             /\ isDrifting' <=> driftDuration' # 0
             /\ ~isDrifting' => episode'.ticks = episode.d]_vars
    /\ (isDrifting ~> ~isDrifting)
\* an episode of 19 ticks is over
C29_Witness ==
    ~isDrifting /\ episode.d = 19 /\ episode.ticks = 19 /\ driftDuration = 0

\* C30: a tick that draws a spike leaves isDrifting, driftDuration,
\* currentOffset and targetOffset as some tick without a spike would from the
\* same state, and the value returned is the base plus the offset plus this
\* tick's spike and noise: nothing of an earlier spike is in it.
C30_SpikeNotRetained ==
    /\ [][TickStep => SimState' \in DriftNext(SimState)]_vars
    /\ [](generated.called =>
            generated.value - generated.spike - generated.noise = 50 + currentOffset)
\* a spike of 60 was drawn in a tick that left the offset at 0
C30_Witness ==
    /\ generated.called /\ generated.spike = 60 /\ generated.noise = 0
    /\ currentOffset = 0 /\ generated.value = 110

\* the drop decision as a function of the value x, the running totals t and
\* the window w it is evaluated against, with threshold k: at least two
\* samples, a positive spread, and x further than k spreads from t.sum/t.count
DropDecision(x, t, w, k) ==
    LET S == {(w[i] * t.count - t.sum) * (w[i] * t.count - t.sum) : i \in DOMAIN w}
        spread == SumSeq([i \in DOMAIN w |-> (w[i] * t.count - t.sum) * (w[i] * t.count - t.sum)])
    IN /\ Len(w) >= 2
       /\ S # {0}
       /\ k.den * k.den * (x * t.count - t.sum) * (x * t.count - t.sum) * Len(w)
            > k.num * k.num * spread
\* this step is the static build's noise test
FilterStep == pc = "filter" /\ pc' # "filter"

\* C31: the drop decision is a function of the reading's value and of the
\* totals and window it is evaluated against, so the same value against the
\* same state is dropped again: the filter decides DropDecision of the value,
\* the totals that include it, and the window holding it (or the empty window,
\* when the drain emptied it before the filter read it).  Witness: -5, 45, 45
\* with a window of 2; the 45 is dropped and, ingested again, dropped again.
C31_DropDecisionDeterministic ==
    [][FilterStep =>
          rejected' = DropDecision(reading.Value, UpdateTotals(pre, reading.Value),
                                   IF lastDrain = "none"
                                   THEN LastN(Append(winBefore, reading.Value), windowSize)
                                   ELSE <<>>,
                                   noiseFilter)]_vars
C31_Witness ==
    /\ Decided /\ rejected /\ pc = "recv" /\ lastDrain = "none"
    /\ received = 3 /\ reading.Value = 45 /\ winBefore = <<-5, 45>>
    /\ pre.count = 2 /\ nFiltered = 1

\* C32: the latency recorded for a FilteredReading is the time from its
\* produced_at stamp (Unix seconds) to its ingestion, in one unit: a reading
\* the dashboard takes d seconds after it was produced is recorded with a
\* latency of d seconds (1000 * d ms, the unit of the dashboard's buffer).
C32_LatencyIsElapsed ==
    [][\A m \in DashMsgs :
          LET f == UnmarshalFilteredReading(m) IN
          (DashOnFiltered(m) /\ ~f.err /\ now >= f.Timestamp) =>
              dLatencies'[Len(dLatencies')] = 1000 * (now - f.Timestamp)]_vars

\* C32, the cloud's part: a reading the cloud takes d seconds after it was
\* produced enters the latency buffer with d seconds.
C32_CloudLatencyIsElapsed ==
    [][/\ \A m \in ReportMsgs :
            LET f == UnmarshalFilteredReading(m) IN
            (CloudReceive(m) /\ ~f.err /\ now >= f.Timestamp) =>
                cur'.latency = now - f.Timestamp
       /\ (ipc = "window" /\ ipc' = "idle") =>
            latencies'[Len(latencies')] = cur.latency]_vars

\* C33: a tick that begins with isDrifting false and currentOffset # 0 only
\* moves the offset back towards 0 and begins no drift episode; an episode
\* begins only on a tick that starts with currentOffset = 0 and isDrifting
\* false.
C33_RecoveryOrStart ==
    [][(TickStep /\ ~isDrifting /\ currentOffset # 0) =>
          /\ ~isDrifting'
          /\ driftDuration' = driftDuration /\ targetOffset' = targetOffset]_vars

\* C33, what the code keeps: an episode begins only with the offset at 0 when
\* "2. Start new Drift?" is reached, so only on a tick that began less than
\* one recovery step away from 0.
C33_StartsAtRest ==
    [][(TickStep /\ ~isDrifting /\ isDrifting') =>
          /\ currentOffset' = 0
          /\ currentOffset < recoveryStepLimit /\ 0 - currentOffset < recoveryStepLimit]_vars

\* C34: under every interleaving of processMessage and publishAggregate no
\* reading is lost or counted twice: the count fields of the aggregates
\* emitted so far plus the current count equal the number of well-formed
\* readings ingested so far; only the locked update and the drain move them.
C34_CountConserved ==
    /\ [](nAggregated + count = nIngested)
    /\ [][/\ UpdateStep => (count' = count + 1 /\ nAggregated' = nAggregated)
          /\ DrainStep => (nAggregated' = nAggregated + count /\ count' = 0)
          /\ (count' # count \/ nAggregated' # nAggregated) => (UpdateStep \/ DrainStep)]_vars
\* two readings went out in a first aggregate, the drain ran while the third
\* was between its update and its publish, and a second aggregate took it
C34_Witness ==
    /\ nIngested = 3 /\ nAggregated = 3 /\ nAgg = 2 /\ count = 0
    /\ lastAgg.count = 1 /\ pc = "forward"

\* C35: in every reachable state of an edge with window capacity N >= 1 the
\* window holds min(count, N) values, count being the readings taken since
\* the last drain; so the window is empty exactly when count is 0.
C35_WindowLength ==
    /\ windowSize >= 1
    /\ Len(windowValues) = (IF count < windowSize THEN count ELSE windowSize)
    /\ (windowValues = <<>>) <=> (count = 0)
\* a window of 1, emptied by a drain, has taken two readings since
C35_Witness ==
    /\ windowSize = 1 /\ nAgg = 1 /\ count = 2 /\ Len(windowValues) = 1
    /\ nIngested = 3

\* C36 as claimed: every aggregate emitted has count >= 1 and finite min and
\* max with min <= mean <= max; the +Inf/-Inf sentinels are never published.
C36_AggregateWithinRange ==
    nAgg >= 1 =>
        /\ lastAgg.count >= 1
        /\ lastAgg.min.inf = 0 /\ lastAgg.max.inf = 0
        /\ lastAgg.min.v * lastAgg.mean.den <= lastAgg.mean.num
        /\ lastAgg.mean.num <= lastAgg.max.v * lastAgg.mean.den

\* C36 amended: every aggregate emitted has count >= 1 and finite min and max
\* with min <= max, never the sentinels; its mean lies between min and max up
\* to the rounding of the sum and of the quotient, a relative error of at
\* most 2 * count * 2^-p for a significand of p bits (readings above 0).
C36_AggregateWithinRounding ==
    nAgg >= 1 =>
        /\ lastAgg.count >= 1
        /\ lastAgg.min.inf = 0 /\ lastAgg.max.inf = 0
        /\ lastAgg.min.v <= lastAgg.max.v
        /\ lastAgg.min.v > 0 =>
             /\ lastAgg.mean.num * 2 ^ significand
                  >= lastAgg.min.v * lastAgg.mean.den * (2 ^ significand - 2 * lastAgg.count)
             /\ lastAgg.mean.num * 2 ^ significand
                  <= lastAgg.max.v * lastAgg.mean.den * (2 ^ significand + 2 * lastAgg.count)
\* three equal readings went out with a mean one float below them
C36_Witness ==
    /\ nAgg = 1 /\ lastAgg.count = 3 /\ lastAgg.min = lastAgg.max
    /\ lastAgg.mean.den = 1 /\ lastAgg.mean.num < lastAgg.min.v

\* C37: after any sequence of messages on edge.filtered the cloud's per-relay
\* counts sum to its count of readings: the sum of edgeNodes[id] over all
\* edge ids equals totalReadings.
C37_RelayCountsSum ==
    CounterSum(edgeNodes) = totalReadings

\* C37, what the code keeps: the per-relay counts sum to the readings taken
\* plus the count fields processAggregate has added.
C37_RelayCountsAtLeast ==
    /\ CounterSum(edgeNodes) >= totalReadings
    /\ [][\A m \in FilteredMsgs \cup AggregateMsgs :
            OnFiltered(m) =>
                /\ totalReadings' = totalReadings + 1
                /\ CounterSum(edgeNodes') = CounterSum(edgeNodes) + 1]_vars

\* what the current reading has had published so far
FilteredForReading == nFiltered - pubBefore.filtered

\* C38: for one reading the edge updates its statistics, then publishes the
\* FilteredReading, and only then the Alert: until the update is done nothing
\* is published for the reading; the FilteredReading goes out before any
\* Alert; and an Alert is published only for a reading whose FilteredReading
\* was handed to the transport, carrying that reading's value.
C38_UpdateForwardAlert ==
    /\ []((~reading.err /\ pc \in {"lock", "update"}) =>
            (FilteredForReading = 0 /\ AlertsForReading = 0))
    /\ [](~reading.err => (AlertsForReading <= FilteredForReading /\ FilteredForReading <= 1))
    /\ [][/\ ForwardStep => (AlertsForReading = 0 /\ ~alerted)
          /\ AlertStep => (forwarded /\ FilteredForReading = 1)
          /\ nAlerts' # nAlerts =>
               /\ AlertStep /\ nAlerts' = nAlerts + 1
               /\ lastFiltered.value = reading.Value
               /\ lastAlert'.value = reading.Value]_vars
\* the tiered build has published the FilteredReading and then the warning
\* for a reading of 65
C38_Witness ==
    /\ Returned /\ build = "tiered" /\ reading.Value = 65
    /\ forwarded /\ alerted /\ FilteredForReading = 1 /\ AlertsForReading = 1
    /\ lastAlert.type = "warning"

\* C39: in JetStream mode every message fetched is acknowledged exactly once
\* and only after processMessage has returned for it, whatever the outcome:
\* no Ack while the message is being processed, one Ack after the return, and
\* the next message is fetched only when the last one is acknowledged; the
\* Ack itself changes nothing of the edge's state.
C39_AckAfterProcess ==
    /\ [](acked <= received /\ received <= acked + 1)
    /\ [](pc # "recv" => acked = received - 1)
    /\ [][/\ acked' # acked =>
               /\ acked' = acked + 1 /\ acked' = received
               /\ pc = "recv" /\ pc' = "recv"
               /\ Totals' = Totals /\ windowValues' = windowValues
               /\ nFiltered' = nFiltered /\ nAlerts' = nAlerts /\ nAgg' = nAgg
          /\ received' # received => acked = received]_vars
\* a malformed message, a reading whose publish failed and a reading the
\* noise filter rejected have all been acknowledged
C39_Witness ==
    /\ useJetStream /\ acked = 3 /\ received = 3 /\ nIngested = 2
    /\ rejected /\ pubErr /\ nFiltered = 1 /\ pc = "recv"

====
